---- MODULE Spec2Model ----
(***************************************************************************)
(* Bourbon: migration ledger (core/migration, core/gormigrate) and         *)
(* migration generation (cmd).                                             *)
(*                                                                         *)
(* Every API call is one atomic action: the callers are sequential CLI     *)
(* commands.  Callbacks (Up, Down, Migrate) and the database are the       *)
(* environment: the outcome of a call's first failing step is an input of  *)
(* the action.                                                             *)
(***************************************************************************)
EXTENDS Integers, Sequences, FiniteSets, TLC

VARIABLES
    schema,      \* the struct bourbon_migrations was created for: one table name, two layouts
    registry,    \* migration.registry.migrations: app -> registered Migration values, in registration order
    ledger,      \* rows of bourbon_migrations as DjangoMigration, in id (insertion) order
    gmRegistry,  \* gormigrate.gormigrateRegistry.migrations: AppMigration values, in registration order
    gmLedger,    \* rows of bourbon_migrations as MigrationRecord / gormigrate rows, primary key id
    last,        \* the last ledger call: what was called, what it returned, which callbacks it invoked
    source,      \* apps/<app>/models.go per app: missing, unparsable, or its struct declarations
    stateFile,   \* .bourbon/migration_state.json: whether it exists, and its MigrationState document
    migFiles,    \* apps/<app>/migrations: per app the migration ids of the files written
    clock,       \* time.Now(), in seconds after 2024-01-01 12:00:00
    edits,       \* how often models.go files were edited
    generated,   \* the migration ids of the successful GenerateMigrationForApp calls, in call order
    recorded,    \* per app the models passed to the last successful UpdateMigrationState, if any
    gen,         \* the last GenerateMigrationForApp call since models.go was edited: inputs, findings, outcome
    hashed,      \* the last call of the hash functions: the slice passed in and the digests returned
    coded,       \* the last call of the code generators: the change set passed in and the code returned
    updated,     \* a call of UpdateMigrationState, and the LoadMigrationState of a later process
    server,      \* the process started by cmd.Run without a command
    web,         \* an Application serving requests: its config flag, DB handle, ErrorStore, error_logs rows
    racers,      \* two concurrent RunMigration calls for one migration: where each is, the Up calls made
    status,      \* what the last ShowMigrationStatus printed: the totals and the counts per app
    chain,       \* the middleware lists of the App, the Router and a Group, the handlers built from them, the last request
    watcher      \* the files on disk with their modification times, Watcher.lastMod, what CheckChanges returned

ledgerVars == <<schema, registry, ledger, gmRegistry, gmLedger, last>>

genVars == <<source, stateFile, migFiles, clock, edits, generated, recorded, gen>>

\* state outside the ledger and the generator
\* state of a serving application
runVars == <<web, racers, status, chain, watcher>>

sideVars == <<hashed, coded, updated, server, runVars>>

vars == <<ledgerVars, genVars, sideVars>>

----------------------------------------------------------------------------
(* Bounds *)

\* direct RecordMigration calls are allowed while the table holds fewer rows
MaxRows == 2

\* models.go files are edited at most this often
MaxEdits == 1

\* at most this many migrations are generated
MaxGen == 2

\* the clock runs for this many seconds
MaxTime == 1

\* the hash functions are called on slices of at most this many models
MaxHashModels == 2

\* each of at most this many fields
MaxHashFields == 2

\* code is generated for change sets with at most this many fields per model and kind
MaxCodeFields == 2

\* UpdateMigrationState is called with at most this many models
MaxStateModels == 2

\* an application serves at most this many requests
MaxRequests == 2

\* the App, the Router and the Group each get at most this many middlewares
MaxMiddlewares == 2

\* modification times of files run from 0 to this
MaxModTime == 2

----------------------------------------------------------------------------
(* The registered migrations *)

Apps == {"blog", "shop"}

Mig(a, n, v) == [app |-> a, name |-> n, version |-> v]

\* Migration values registered with RegisterMigration (App, Name, Version)
DjMigs == { Mig("blog", "0001_initial", 1), Mig("blog", "0002_add_age", 2),
            Mig("shop", "0001_initial", 1) }

Key(m) == [app |-> m.app, name |-> m.name]

DjKeys == { Key(m) : m \in DjMigs }

\* gormigrate migrations registered with RegisterAppMigration (AppName, ID)
GmMigs == { [app |-> "blog", name |-> "20240101000000_init"],
            [app |-> "shop", name |-> "20240102000000_init"] }

\* a ledger id no registered migration has (a migration file deleted after it ran)
OrphanId == "20230101000000_old"

\* what the migration packages' init() functions registered, in import order: nothing,
\* both migrations, or one migration id registered twice
GmRegistrations ==
    { <<>>,
      <<[app |-> "blog", name |-> "20240101000000_init"],
        [app |-> "shop", name |-> "20240102000000_init"]>>,
      <<[app |-> "shop", name |-> "20240102000000_init"],
        [app |-> "blog", name |-> "20240101000000_init"]>>,
      <<[app |-> "blog", name |-> "20240101000000_init"],
        [app |-> "shop", name |-> "20240101000000_init"]>> }

GmIds == { m.name : m \in GmMigs } \cup {OrphanId}

Range(s) == { s[i] : i \in DOMAIN s }

Perms(S) == { s \in [1..Cardinality(S) -> S] : Range(s) = S }

\* a call: op and target name it, out is the environment's input (the first step
\* that fails), err the error returned ("" is nil), up and down the callbacks
\* invoked in order, count the int returned
Call(op, target, out, err, up, down, count) ==
    [op |-> op, target |-> target, out |-> out, err |-> err, up |-> up, down |-> down,
     count |-> count]

NoCall == Call("none", <<>>, "ok", "", <<>>, <<>>, 0)

----------------------------------------------------------------------------
(* MigrationRunner over the DjangoMigration table *)

\* a bug: the status query never finds the record
IsAppliedNever(rows, app, name) == FALSE

\* count(*) WHERE app = ? AND name = ? > 0
IsApplied(rows, app, name) ==
    \E i \in DOMAIN rows : rows[i].app = app /\ rows[i].name = name

\* db.Create: one more row; no uniqueness constraint on (app, name)
RecordMigration(rows, app, name) == Append(rows, [app |-> app, name |-> name])

\* db.Where("app = ? AND name = ?").Delete: every matching row goes
RemoveMigration(rows, app, name) ==
    SelectSeq(rows, LAMBDA r : ~(r.app = app /\ r.name = name))

\* the first step of a RunMigration call that fails, "ok" when none does
RunOutcomes == {"ok", "query", "up", "write"}

\* a bug: the record is written before Up is known to have succeeded
RunMigrationRecordFirst(rows, m, out) ==
    IF out = "query"
    THEN [rows |-> rows, err |-> "error checking migration status", up |-> <<>>]
    ELSE IF IsApplied(rows, m.app, m.name)
    THEN [rows |-> rows, err |-> "", up |-> <<>>]
    ELSE IF out = "write"
    THEN [rows |-> rows, err |-> "error recording migration", up |-> <<>>]
    ELSE IF out = "up"
    THEN [rows |-> RecordMigration(rows, m.app, m.name),
          err |-> "error running migration", up |-> <<Key(m)>>]
    ELSE [rows |-> RecordMigration(rows, m.app, m.name), err |-> "", up |-> <<Key(m)>>]

\* RunMigration: the rows afterwards, the error returned ("" is nil), the Up calls made
RunMigration(rows, m, out) ==
    IF out = "query"
    THEN [rows |-> rows, err |-> "error checking migration status", up |-> <<>>]
    ELSE IF IsApplied(rows, m.app, m.name)
    THEN [rows |-> rows, err |-> "", up |-> <<>>]
    ELSE IF out = "up"
    THEN [rows |-> rows, err |-> "error running migration", up |-> <<Key(m)>>]
    ELSE IF out = "write"
    THEN [rows |-> rows, err |-> "error recording migration", up |-> <<Key(m)>>]
    ELSE [rows |-> RecordMigration(rows, m.app, m.name), err |-> "", up |-> <<Key(m)>>]

\* the first step of a RollbackMigration call that fails, "ok" when none does
RollbackOutcomes == {"ok", "query", "down", "write"}

\* a bug: the record is removed before Down runs
RollbackMigrationRemoveFirst(rows, m, out) ==
    IF out = "query"
    THEN [rows |-> rows, err |-> "error checking migration status", down |-> <<>>]
    ELSE IF ~IsApplied(rows, m.app, m.name)
    THEN [rows |-> rows, err |-> "", down |-> <<>>]
    ELSE IF out = "write"
    THEN [rows |-> rows, err |-> "error removing migration record", down |-> <<>>]
    ELSE IF out = "down"
    THEN [rows |-> RemoveMigration(rows, m.app, m.name),
          err |-> "error rolling back migration", down |-> <<Key(m)>>]
    ELSE [rows |-> RemoveMigration(rows, m.app, m.name), err |-> "", down |-> <<Key(m)>>]

\* a bug: Down runs without the applied check
RollbackMigrationNoCheck(rows, m, out) ==
    IF out = "query"
    THEN [rows |-> rows, err |-> "error checking migration status", down |-> <<>>]
    ELSE IF out = "down"
    THEN [rows |-> rows, err |-> "error rolling back migration", down |-> <<Key(m)>>]
    ELSE IF out = "write"
    THEN [rows |-> rows, err |-> "error removing migration record", down |-> <<Key(m)>>]
    ELSE [rows |-> RemoveMigration(rows, m.app, m.name), err |-> "", down |-> <<Key(m)>>]

\* RollbackMigration: the rows afterwards, the error returned, the Down calls made
RollbackMigration(rows, m, out) ==
    IF out = "query"
    THEN [rows |-> rows, err |-> "error checking migration status", down |-> <<>>]
    ELSE IF ~IsApplied(rows, m.app, m.name)
    THEN [rows |-> rows, err |-> "", down |-> <<>>]
    ELSE IF out = "down"
    THEN [rows |-> rows, err |-> "error rolling back migration", down |-> <<Key(m)>>]
    ELSE IF out = "write"
    THEN [rows |-> rows, err |-> "error removing migration record", down |-> <<Key(m)>>]
    ELSE [rows |-> RemoveMigration(rows, m.app, m.name), err |-> "", down |-> <<Key(m)>>]

\* a bug: the migrations are returned in registration order
GetMigrationsUnsorted(app) == { registry[app] }

\* GetMigrations: a copy of the app's migrations after sort.Slice by Version
\* (not a stable sort: any order that is non-decreasing in Version)
GetMigrations(app) ==
    LET regd == registry[app]
    IN { s \in [DOMAIN regd -> Range(regd)] :
           /\ \E p \in Perms(DOMAIN regd) : \A i \in DOMAIN regd : s[i] = regd[p[i]]
           /\ \A i, j \in DOMAIN s : i < j => s[i].version <= s[j].version }

\* per migration of a RunRegisteredMigrations call: the first failing step; "recheck"
\* is the second IsApplied query (line 74) failing, whose error is dropped
RegisteredOutcomes == RunOutcomes \cup {"recheck"}

RECURSIVE RunRegisteredFrom(_, _, _, _, _, _)
RunRegisteredFrom(rows, migs, i, outs, count, up) ==
    IF i > Len(migs)
    THEN [rows |-> rows, err |-> "", up |-> up, count |-> count]
    ELSE LET m == migs[i]
             r == RunMigration(rows, m, IF outs[m] = "recheck" THEN "ok" ELSE outs[m])
         IN IF r.err # ""
            THEN [rows |-> r.rows, err |-> r.err, up |-> up \o r.up, count |-> count]
            ELSE RunRegisteredFrom(r.rows, migs, i + 1, outs,
                     IF outs[m] # "recheck" /\ IsApplied(r.rows, m.app, m.name)
                     THEN count + 1 ELSE count,
                     up \o r.up)

\* RunRegisteredMigrations over the sorted migrations
RunRegisteredMigrations(rows, migs, outs) ==
    IF Len(migs) = 0
    THEN [rows |-> rows, err |-> "", up |-> <<>>, count |-> 0]
    ELSE RunRegisteredFrom(rows, migs, 1, outs, 0, <<>>)

----------------------------------------------------------------------------
(* Actions of the MigrationRunner *)

DoRunMigration ==
    /\ schema = "DjangoMigration"
    /\ \E m \in DjMigs, out \in RunOutcomes :
        LET r == RunMigration(ledger, m, out)
        IN /\ ledger' = r.rows
           /\ last' = Call("RunMigration", <<Key(m)>>, out, r.err, r.up, <<>>, 0)
           /\ UNCHANGED <<schema, registry, gmRegistry, gmLedger>> /\ UNCHANGED genVars /\ UNCHANGED sideVars

DoRollbackMigration ==
    /\ schema = "DjangoMigration"
    /\ \E m \in DjMigs, out \in RollbackOutcomes :
        LET r == RollbackMigration(ledger, m, out)
        IN /\ ledger' = r.rows
           /\ last' = Call("RollbackMigration", <<Key(m)>>, out, r.err, <<>>, r.down, 0)
           /\ UNCHANGED <<schema, registry, gmRegistry, gmLedger>> /\ UNCHANGED genVars /\ UNCHANGED sideVars

DoRecordMigration ==
    /\ schema = "DjangoMigration"
    /\ \E k \in DjKeys, ok \in BOOLEAN :
        /\ Len(ledger) < MaxRows
        /\ ledger' = IF ok THEN RecordMigration(ledger, k.app, k.name) ELSE ledger
        /\ last' = Call("RecordMigration", <<k>>, IF ok THEN "ok" ELSE "write",
                         IF ok THEN "" ELSE "db error", <<>>, <<>>, 0)
        /\ UNCHANGED <<schema, registry, gmRegistry, gmLedger>> /\ UNCHANGED genVars /\ UNCHANGED sideVars

DoRemoveMigration ==
    /\ schema = "DjangoMigration"
    /\ \E k \in DjKeys, ok \in BOOLEAN :
        /\ ledger' = IF ok THEN RemoveMigration(ledger, k.app, k.name) ELSE ledger
        /\ last' = Call("RemoveMigration", <<k>>, IF ok THEN "ok" ELSE "write",
                         IF ok THEN "" ELSE "db error", <<>>, <<>>, 0)
        /\ UNCHANGED <<schema, registry, gmRegistry, gmLedger>> /\ UNCHANGED genVars /\ UNCHANGED sideVars

DoRunRegisteredMigrations ==
    /\ schema = "DjangoMigration"
    /\ \E app \in Apps :
        \E migs \in GetMigrations(app), outs \in [Range(registry[app]) -> RegisteredOutcomes] :
            LET r == RunRegisteredMigrations(ledger, migs, outs)
            IN /\ ledger' = r.rows
               /\ last' = Call("RunRegisteredMigrations", <<>>,
                               IF r.err = "" THEN "ok" ELSE "stopped",
                               r.err, r.up, <<>>, r.count)
               /\ UNCHANGED <<schema, registry, gmRegistry, gmLedger>> /\ UNCHANGED genVars /\ UNCHANGED sideVars

----------------------------------------------------------------------------
(* gormigrate runner and MigrationTracker over the same table, keyed by id *)

GmHas(rows, id) == \E i \in DOMAIN rows : rows[i].name = id

\* MigrationTracker.RecordMigration: db.Create; the primary key rejects a second row
TrackerRecordMigration(rows, id, appName, ok) ==
    IF ok /\ ~GmHas(rows, id)
    THEN [rows |-> Append(rows, [app |-> appName, name |-> id]), err |-> ""]
    ELSE [rows |-> rows, err |-> "db error"]

\* MigrationTracker.RemoveMigration: db.Where("id = ?").Delete
TrackerRemoveMigration(rows, id, ok) ==
    IF ok
    THEN [rows |-> SelectSeq(rows, LAMBDA r : r.name # id), err |-> ""]
    ELSE [rows |-> rows, err |-> "db error"]

\* gormigrate's runMigration, called by GormigrateRunner.Migrate through
\* gr.migrator.Migrate(): migrationRan, then Migrate(tx), then the insert of the id
GormigrateRunMigration(rows, m, out) ==
    IF out = "query"
    THEN [rows |-> rows, err |-> "query failed", up |-> <<>>]
    ELSE IF GmHas(rows, m.name)
    THEN [rows |-> rows, err |-> "", up |-> <<>>]
    ELSE IF out = "up"
    THEN [rows |-> rows, err |-> "migrate failed", up |-> <<m>>]
    ELSE IF out = "write"
    THEN [rows |-> rows, err |-> "insert failed", up |-> <<m>>]
    ELSE [rows |-> Append(rows, [app |-> "", name |-> m.name]), err |-> "", up |-> <<m>>]

RECURSIVE GormigrateFrom(_, _, _, _, _)
GormigrateFrom(rows, migs, i, outs, up) ==
    IF i > Len(migs)
    THEN [rows |-> rows, err |-> "", up |-> up]
    ELSE LET r == GormigrateRunMigration(rows, migs[i], outs[migs[i]])
         IN IF r.err # ""
            THEN [rows |-> r.rows, err |-> "migration failed", up |-> up \o r.up]
            ELSE GormigrateFrom(r.rows, migs, i + 1, outs, up \o r.up)

\* GormigrateRunner.Migrate: gormigrate rejects a duplicated id before it runs
\* anything, then runs the migrations in registration order, without a transaction
\* (DefaultOptions.UseTransaction is false)
GormigrateMigrate(rows, migs, outs) ==
    IF Len(migs) = 0
    THEN [rows |-> rows, err |-> "no migrations registered", up |-> <<>>]
    ELSE IF \E i, j \in DOMAIN migs : i # j /\ migs[i].name = migs[j].name
    THEN [rows |-> rows, err |-> "migration failed", up |-> <<>>]
    ELSE GormigrateFrom(rows, migs, 1, outs, <<>>)

\* core.RunMigrations; pluckOk: the Pluck of the applied ids, whose error is dropped
RunMigrations(rows, migs, pluckOk, outs) ==
    IF Len(migs) = 0
    THEN [rows |-> rows, err |-> "", up |-> <<>>]
    ELSE LET appliedIDs == IF pluckOk THEN { rows[i].name : i \in DOMAIN rows } ELSE {}
             pendingCount == Cardinality({ i \in DOMAIN migs : migs[i].name \notin appliedIDs })
         IN IF pendingCount = 0
            THEN [rows |-> rows, err |-> "", up |-> <<>>]
            ELSE GormigrateMigrate(rows, migs, outs)

DoRunMigrations ==
    /\ schema = "MigrationRecord"
    /\ \E pluckOk \in BOOLEAN, outs \in [GmMigs -> RunOutcomes] :
        LET r == RunMigrations(gmLedger, gmRegistry, pluckOk, outs)
        IN /\ gmLedger' = r.rows
           /\ last' = Call("RunMigrations", <<>>, IF r.err = "" THEN "ok" ELSE "stopped",
                           r.err, r.up, <<>>, 0)
           /\ UNCHANGED <<schema, registry, ledger, gmRegistry>> /\ UNCHANGED genVars /\ UNCHANGED sideVars

\* nothing printed
NoStatus ==
    [shown |-> FALSE, total |-> 0, applied |-> 0, pending |-> 0,
     apps |-> [a \in {} |-> [total |-> 0, applied |-> 0, pending |-> 0]]]

\* core.ShowMigrationStatus: the totals are computed from the number of rows plucked,
\* the counts per app from the lookup map of their ids
ShowMigrationStatus(rows, migs, pluckOk) ==
    IF Len(migs) = 0 THEN NoStatus
    ELSE LET appliedIDs == IF pluckOk THEN [i \in DOMAIN rows |-> rows[i].name] ELSE <<>>
             appliedMap == Range(appliedIDs)
             grouped(a) == { i \in DOMAIN migs : migs[i].app = a }
             appApplied(a) == Cardinality({ i \in grouped(a) : migs[i].name \in appliedMap })
             totalApplied == Len(appliedIDs)
         IN [shown |-> TRUE,
             total |-> Len(migs),
             applied |-> totalApplied,
             pending |-> Len(migs) - totalApplied,
             apps |-> [a \in { migs[i].app : i \in DOMAIN migs } |->
                         [total |-> Cardinality(grouped(a)),
                          applied |-> appApplied(a),
                          pending |-> Cardinality(grouped(a)) - appApplied(a)]]]

DoShowMigrationStatus ==
    /\ schema = "MigrationRecord"
    /\ \E pluckOk \in BOOLEAN :
          status' = ShowMigrationStatus(gmLedger, gmRegistry, pluckOk)
    /\ last' = Call("ShowMigrationStatus", <<>>, "ok", "", <<>>, <<>>, 0)
    /\ UNCHANGED <<schema, registry, ledger, gmRegistry, gmLedger>>
    /\ UNCHANGED <<genVars, hashed, coded, updated, server, web, racers, chain, watcher>>

DoTrackerRecordMigration ==
    /\ schema = "MigrationRecord"
    /\ \E id \in GmIds, app \in Apps, ok \in BOOLEAN :
        LET r == TrackerRecordMigration(gmLedger, id, app, ok)
        IN /\ Len(gmLedger) < MaxRows
           /\ gmLedger' = r.rows
           /\ last' = Call("TrackerRecordMigration", <<[app |-> app, name |-> id]>>,
                           IF ok THEN "ok" ELSE "write", r.err, <<>>, <<>>, 0)
           /\ UNCHANGED <<schema, registry, ledger, gmRegistry>> /\ UNCHANGED genVars /\ UNCHANGED sideVars

DoTrackerRemoveMigration ==
    /\ schema = "MigrationRecord"
    /\ \E id \in GmIds, ok \in BOOLEAN :
        LET r == TrackerRemoveMigration(gmLedger, id, ok)
        IN /\ gmLedger' = r.rows
           /\ last' = Call("TrackerRemoveMigration", <<[app |-> "", name |-> id]>>,
                           IF ok THEN "ok" ELSE "write", r.err, <<>>, <<>>, 0)
           /\ UNCHANGED <<schema, registry, ledger, gmRegistry>> /\ UNCHANGED genVars /\ UNCHANGED sideVars

----------------------------------------------------------------------------

\* no hash computed yet
NoHash == [models |-> <<>>, done |-> FALSE, sum |-> <<>>, single |-> <<>>]

\* no code generated yet
NoCode ==
    [changes |-> [NewModels |-> <<>>, DeletedModels |-> {}, NewFields |-> <<>>,
                  DeletedFields |-> <<>>, ModifiedFields |-> <<>>],
     done |-> FALSE, migrate |-> <<>>, rollback |-> <<>>]

\* LoadMigrationState not called
NoLoad == [called |-> FALSE, err |-> FALSE, Apps |-> <<>>]

\* UpdateMigrationState not called
NoUpdate == [app |-> "", models |-> <<>>, id |-> <<>>, result |-> "none", loaded |-> NoLoad]

\* no server process
NoServer == [pc |-> "down", init |-> "none"]

\* no ErrorStore: app.ErrorStore is nil
NoErrorStore == [present |-> FALSE, enabled |-> FALSE, db |-> "nil"]

\* no Application constructed
NoWeb ==
    [pc |-> "none", storeErrors |-> FALSE, DB |-> "nil", ErrorStore |-> NoErrorStore,
     logs |-> <<>>, served |-> <<>>]

\* the callers of RunMigration
Procs == {1, 2}

\* no concurrent RunMigration calls
NoRace == [m |-> Mig("", "", 0), pc |-> [p \in Procs |-> "idle"], up |-> <<>>]

\* core.NewApp and http.NewRouter: empty middleware lists, no group, no route, nothing built
NoChain ==
    [stack |-> <<>>, middlewares |-> <<>>,
     group |-> [made |-> FALSE, middlewares |-> <<>>],
     route |-> [registered |-> FALSE, Handler |-> <<>>],
     handler |-> <<>>, served |-> FALSE, rejects |-> {}, entered |-> <<>>]

\* no Watcher, no file
NoWatcher == [disk |-> <<>>, lastMod |-> <<>>, returned |-> "none"]

RunIdle ==
    web = NoWeb /\ racers = NoRace /\ status = NoStatus /\ chain = NoChain /\ watcher = NoWatcher

SideIdle ==
    hashed = NoHash /\ coded = NoCode /\ updated = NoUpdate /\ server = NoServer /\ RunIdle

\* the generation side at rest: no models.go, no state file, nothing generated
NoGen ==
    [app |-> "", name |-> <<>>,
     changes |-> [NewModels |-> <<>>, DeletedModels |-> {}, NewFields |-> <<>>,
                  DeletedFields |-> <<>>, ModifiedFields |-> <<>>],
     asked |-> FALSE, stdin |-> [eof |-> TRUE, text |-> <<>>], outcome |-> "none", id |-> <<>>]

GenIdle ==
    /\ source = [a \in Apps |-> [kind |-> "missing", structs |-> <<>>]]
    /\ stateFile = [exists |-> FALSE, apps |-> <<>>]
    /\ migFiles = [a \in Apps |-> {}]
    /\ clock = 0
    /\ edits = 0
    /\ generated = <<>>
    /\ recorded = [a \in Apps |-> [set |-> FALSE, models |-> <<>>]]
    /\ gen = NoGen

\* the orders in which the migration packages may have registered the migrations
Registrations ==
    { f \in [Apps -> UNION { [1..n -> DjMigs] : n \in 0..Cardinality(DjMigs) }] :
        /\ \A a \in Apps : \A i \in DOMAIN f[a] : f[a][i].app = a
        /\ \A a \in Apps : \A i, j \in DOMAIN f[a] : f[a][i] = f[a][j] => i = j
        /\ \A m \in DjMigs : \E i \in DOMAIN f[m.app] : f[m.app][i] = m }

\* a database is driven by one of the two runners: both name their table
\* bourbon_migrations and lay it out differently
LedgerInit ==
    /\ schema \in {"DjangoMigration", "MigrationRecord"}
    /\ IF schema = "DjangoMigration"
       THEN registry \in Registrations /\ gmRegistry = <<>>
       ELSE registry = [a \in Apps |-> <<>>] /\ gmRegistry \in GmRegistrations
    /\ ledger = <<>>
    /\ gmLedger = <<>>
    /\ last = NoCall
    /\ GenIdle
    /\ SideIdle

LedgerNext ==
    \/ DoRunMigration
    \/ DoRollbackMigration
    \/ DoRecordMigration
    \/ DoRemoveMigration
    \/ DoRunRegisteredMigrations
    \/ DoRunMigrations
    \/ DoTrackerRecordMigration
    \/ DoTrackerRemoveMigration
    \/ DoShowMigrationStatus

SpecLedger == LedgerInit /\ [][LedgerNext]_vars

----------------------------------------------------------------------------
(* Properties of the ledger *)

Table == IF schema = "DjangoMigration" THEN ledger ELSE gmLedger

\* the rows of table tbl that record migration k: by (app, name) in the
\* DjangoMigration layout, by id in the MigrationRecord layout
RecordsIn(tbl, k) ==
    { i \in DOMAIN tbl :
        tbl[i].name = k.name /\ (schema = "DjangoMigration" => tbl[i].app = k.app) }

\* the rows of tbl that record another migration, in order
OthersIn(tbl, k) ==
    SelectSeq(tbl, LAMBDA r :
        ~(r.name = k.name /\ (schema = "DjangoMigration" => r.app = k.app)))

RecordsOf(k) == RecordsIn(Table, k)

AllKeys == DjKeys \cup GmMigs \cup { [app |-> a, name |-> id] : a \in Apps, id \in GmIds }

ForwardOps == {"RunMigration", "RunRegisteredMigrations", "RunMigrations"}

\* the callback of the last call was invoked and returned an error
UpFailed == last.out = "up" /\ last.up # <<>>
DownFailed == last.out = "down" /\ last.down # <<>>
\* Down returned nil and the delete of the record then failed
DeleteFailed == last.out = "write" /\ last.down # <<>>

\* C1: a forward-migrate call (RunMigration, RunRegisteredMigrations, core
\* RunMigrations) never invokes the Up/Migrate callback of a migration whose ledger
\* record exists when the call starts, never invokes one callback twice, and adds no
\* further record for a recorded migration.
C1_ApplyIsIdempotent ==
    [][ last'.op \in ForwardOps =>
          /\ \A i, j \in DOMAIN last'.up : last'.up[i].name = last'.up[j].name
                                            /\ last'.up[i].app = last'.up[j].app => i = j
          /\ \A k \in AllKeys : RecordsOf(k) # {} =>
                /\ \A i \in DOMAIN last'.up :
                      ~(last'.up[i].name = k.name
                        /\ (schema = "DjangoMigration" => last'.up[i].app = k.app))
                /\ Cardinality(RecordsIn(Table', k)) = Cardinality(RecordsOf(k)) ]_ledgerVars

\* C1 witness: a RunRegisteredMigrations / RunMigrations call returned nil having
\* invoked one callback while the ledger holds two records: it skipped a recorded
\* migration.
C1_Witness ==
    /\ last.op \in {"RunRegisteredMigrations", "RunMigrations"} /\ last.err = ""
    /\ Len(last.up) = 1 /\ Len(Table) >= 2

\* C2: when Up returns an error, RunMigration returns an error and leaves the
\* ledger as it was; the migration has no record afterwards.
C2_FailedUpNotRecorded ==
    [][ (last'.op = "RunMigration" /\ UpFailed') =>
          /\ last'.err # ""
          /\ ledger' = ledger
          /\ RecordsIn(Table', last'.target[1]) = {} ]_ledgerVars

\* C2 witness: Up failed for a migration while the ledger held another record.
C2_Witness ==
    /\ last.op = "RunMigration" /\ UpFailed /\ last.err # ""
    /\ ledger # <<>> /\ RecordsOf(last.target[1]) = {}

\* C3 as claimed: for a recorded migration, RollbackMigration leaves no record
\* exactly when Down was invoked and returned nil, and a failing Down gives an error.
C3_RemovedIffDownSucceeded ==
    [][ (last'.op = "RollbackMigration" /\ RecordsOf(last'.target[1]) # {}) =>
          /\ DownFailed' => (last'.err # "" /\ RecordsIn(Table', last'.target[1]) # {})
          /\ (RecordsIn(Table', last'.target[1]) = {}) <=> (last'.down # <<>> /\ ~DownFailed')
       ]_ledgerVars

\* C3 amended: for a recorded migration, a failing Down gives an error and leaves
\* the record; the record is gone afterwards exactly when Down returned nil and the
\* delete of the record succeeded; when the delete fails RollbackMigration returns
\* an error and the record is still present.
C3_RemovedIffDownAndDeleteSucceeded ==
    [][ (last'.op = "RollbackMigration" /\ RecordsOf(last'.target[1]) # {}) =>
          /\ DownFailed' => (last'.err # "" /\ ledger' = ledger)
          /\ DeleteFailed' => (last'.err # "" /\ ledger' = ledger)
          /\ (RecordsIn(Table', last'.target[1]) = {})
                <=> (last'.down # <<>> /\ ~DownFailed' /\ ~DeleteFailed')
       ]_ledgerVars

\* C3 witness: a rollback whose Down failed left the record in place.
C3_Witness ==
    /\ last.op = "RollbackMigration" /\ DownFailed /\ last.err # ""
    /\ RecordsOf(last.target[1]) # {}

\* C4 as claimed: RollbackMigration of a migration without a record returns nil,
\* does not invoke Down and leaves the ledger unchanged.
C4_RollbackOfUnappliedIsSilent ==
    [][ (last'.op = "RollbackMigration" /\ RecordsOf(last'.target[1]) = {}) =>
          /\ last'.err = ""
          /\ last'.down = <<>>
          /\ ledger' = ledger ]_ledgerVars

\* C4 amended: RollbackMigration of a migration without a record does not invoke
\* Down and leaves the ledger unchanged; it returns nil unless the status query
\* itself fails, and then it returns that error.
C4_RollbackOfUnappliedIsNoOp ==
    [][ (last'.op = "RollbackMigration" /\ RecordsOf(last'.target[1]) = {}) =>
          /\ last'.err = "" <=> last'.out # "query"
          /\ last'.down = <<>>
          /\ ledger' = ledger ]_ledgerVars

\* C4 witness: a rollback of an unapplied migration was skipped while the ledger
\* held other records.
C4_Witness ==
    /\ last.op = "RollbackMigration" /\ last.err = "" /\ last.down = <<>>
    /\ RecordsOf(last.target[1]) = {} /\ ledger # <<>>

\* C5 as claimed: a successful RollbackMigration or RemoveMigration of a recorded
\* migration takes exactly one entry out of the ledger and leaves the others alone.
C5_RollbackRemovesExactlyOne ==
    [][ ( /\ last'.op \in {"RollbackMigration", "RemoveMigration", "TrackerRemoveMigration"}
          /\ last'.err = ""
          /\ RecordsOf(last'.target[1]) # {} ) =>
          /\ Len(Table') = Len(Table) - 1
          /\ OthersIn(Table', last'.target[1]) = OthersIn(Table, last'.target[1]) ]_ledgerVars

----------------------------------------------------------------------------
(* Strings are sequences of byte values, as Go compares and concatenates them *)

\* Go's < on strings: bytewise lexicographic
RECURSIVE StrLess(_, _)
StrLess(a, b) ==
    IF b = <<>> THEN FALSE
    ELSE IF a = <<>> THEN TRUE
    ELSE IF a[1] # b[1] THEN a[1] < b[1]
    ELSE StrLess(Tail(a), Tail(b))

\* strings.ToLower on ASCII: 'A'..'Z' become 'a'..'z'
ToLower(str) == [i \in DOMAIN str |-> IF str[i] >= 65 /\ str[i] <= 90 THEN str[i] + 32 ELSE str[i]]

\* strings.ReplaceAll(name, " ", "_")
ReplaceSpaces(str) == [i \in DOMAIN str |-> IF str[i] = 32 THEN 95 ELSE str[i]]

RECURSIVE SkipSpace(_)
SkipSpace(str) == IF str # <<>> /\ str[1] = 32 THEN SkipSpace(Tail(str)) ELSE str

RECURSIVE TakeToken(_)
TakeToken(str) ==
    IF str = <<>> \/ str[1] = 32 THEN <<>> ELSE <<str[1]>> \o TakeToken(Tail(str))

\* fmt.Scanln(&response) with its error dropped: leading blanks are skipped and
\* response is the text up to the next blank; it stays "" on an empty line or at
\* end of input; text after the first word only makes the dropped error non-nil
Scanln(stdin) == IF stdin.eof THEN <<>> ELSE TakeToken(SkipSpace(stdin.text))

\* time.Now().Format("20060102150405") within the minute after 2024-01-01 12:00:00
FormatTime(t) ==
    <<50, 48, 50, 52, 48, 49, 48, 49, 49, 50, 48, 48>> \o <<48 + (t \div 10), 48 + (t % 10)>>

\* migrationID: the timestamp, then "_" and the cleaned name when a name is given
MigrationID(t, name) ==
    IF name = <<>>
    THEN FormatTime(t)
    ELSE FormatTime(t) \o <<95>> \o ToLower(ReplaceSpaces(name))

----------------------------------------------------------------------------
(* Models *)

Field(n, ty, tag) == [Name |-> n, Type |-> ty, Tag |-> tag]

TString == <<115, 116, 114, 105, 110, 103>>                    \* "string"
TInt == <<105, 110, 116>>                                      \* "int"
TagIndex == <<96, 117, 96>>                                    \* `u`
NUser == <<85, 115, 101, 114>>                                 \* "User"
NPost == <<80, 111, 115, 116>>                                 \* "Post"
NItem == <<73, 116, 101, 109>>                                 \* "Item"
NHelper == <<72, 101, 108, 112, 101, 114>>                     \* "Helper"
FName == <<78, 97, 109, 101>>                                  \* "Name"
FEmail == <<69, 109, 97, 105, 108>>                            \* "Email"
FTitle == <<84, 105, 116, 108, 101>>                           \* "Title"
FSku == <<83, 107, 117>>                                       \* "Sku"

\* the field declarations an edit may write into a struct of that name
FieldPool(structName) ==
    IF structName = NUser
    THEN { Field(FName, TString, <<>>), Field(FName, TInt, <<>>),
           Field(FName, TString, TagIndex), Field(FEmail, TString, <<>>) }
    ELSE IF structName = NPost THEN { Field(FTitle, TString, <<>>) }
    ELSE IF structName = NItem THEN { Field(FSku, TString, <<>>) }
    ELSE {}

\* a struct declaration: base says that it embeds <pkg>.BaseModel
Struct(n, base, fields) == [Name |-> n, base |-> base, Fields |-> fields]

\* the struct declarations an edit may add to an app's models.go
StructPool(app) ==
    IF app = "blog"
    THEN { Struct(NUser, TRUE, <<Field(FName, TString, <<>>)>>),
           Struct(NPost, TRUE, <<Field(FTitle, TString, <<>>)>>) }
    ELSE { Struct(NItem, TRUE, <<Field(FSku, TString, <<>>)>>) }

\* a models.go that parses
File(structs) == [kind |-> "file", structs |-> structs]

\* no models.go
Missing == [kind |-> "missing", structs |-> <<>>]

\* a models.go with a syntax error
Unparsable == [kind |-> "unparsable", structs |-> <<>>]

\* what apps/<app>/models.go may hold when the project is first looked at
InitialSources(app) ==
    IF app = "blog"
    THEN { Missing,
           File(<<Struct(NHelper, FALSE, <<Field(FName, TString, <<>>)>>),
                  Struct(NUser, TRUE, <<Field(FName, TString, <<>>),
                                        Field(FEmail, TString, <<>>)>>)>>),
           File(<<Struct(NUser, TRUE, <<Field(FName, TString, <<>>)>>),
                  Struct(NPost, TRUE, <<Field(FTitle, TString, <<>>)>>)>>) }
    ELSE { File(<<Struct(NItem, TRUE, <<Field(FSku, TString, <<>>)>>)>>) }

RemoveAt(s, i) == [j \in 1..(Len(s) - 1) |-> IF j < i THEN s[j] ELSE s[j + 1]]

Swap(s, i) == [j \in DOMAIN s |-> IF j = i THEN s[i + 1] ELSE IF j = i + 1 THEN s[i] ELSE s[j]]

FieldNames(fields) == { fields[i].Name : i \in DOMAIN fields }

\* one edit of a struct's field list: a field added at the end, removed, changed in
\* type or tag, renamed, or moved
FieldEdits(structName, fields) ==
    { Append(fields, f) : f \in { g \in FieldPool(structName) : g.Name \notin FieldNames(fields) } }
    \cup { RemoveAt(fields, i) : i \in DOMAIN fields }
    \cup UNION { { [fields EXCEPT ![i] = f] :
                     f \in { g \in FieldPool(structName) :
                               g # fields[i] /\ g.Name \notin FieldNames(RemoveAt(fields, i)) } } :
                   i \in DOMAIN fields }
    \cup { Swap(fields, i) : i \in 1..(Len(fields) - 1) }

\* one edit of models.go
Edits(app, src) ==
    IF src.kind # "file"
    THEN InitialSources(app) \ {src}
    ELSE {Unparsable}
         \cup { File(Append(src.structs, st)) :
                  st \in { x \in StructPool(app) :
                             \A i \in DOMAIN src.structs : src.structs[i].Name # x.Name } }
         \cup { File(RemoveAt(src.structs, i)) : i \in DOMAIN src.structs }
         \cup { File(Swap(src.structs, i)) : i \in 1..(Len(src.structs) - 1) }
         \cup UNION { { File([src.structs EXCEPT ![i].Fields = fs]) :
                          fs \in FieldEdits(src.structs[i].Name, src.structs[i].Fields) } :
                        i \in DOMAIN src.structs }

\* a bug: a file that does not parse is read as a file without models
ScanModelsLenient(src) ==
    IF src.kind # "file" THEN [err |-> FALSE, models |-> <<>>]
    ELSE LET kept == SelectSeq(src.structs, LAMBDA st : st.base)
         IN [err |-> FALSE,
             models |-> [i \in DOMAIN kept |-> [Name |-> kept[i].Name, Fields |-> kept[i].Fields]]]

\* ScanModels: no file gives no models and no error; a parse failure gives an error;
\* otherwise the structs that embed BaseModel, in declaration order
ScanModels(src) ==
    IF src.kind = "missing" THEN [err |-> FALSE, models |-> <<>>]
    ELSE IF src.kind = "unparsable" THEN [err |-> TRUE, models |-> <<>>]
    ELSE LET kept == SelectSeq(src.structs, LAMBDA st : st.base)
         IN [err |-> FALSE,
             models |-> [i \in DOMAIN kept |-> [Name |-> kept[i].Name, Fields |-> kept[i].Fields]]]

----------------------------------------------------------------------------
(* The persisted state document *)

\* no .bourbon/migration_state.json
NoStateFile == [exists |-> FALSE, apps |-> <<>>]

\* a string as encoding/json writes and reads it back: bytes that are not valid
\* UTF-8 come back as U+FFFD, everything else is escaped and unescaped to itself
JsonString(str) == [i \in DOMAIN str |-> IF str[i] < 128 THEN str[i] ELSE 65533]

\* a bug: the tag is not written
MarshalFieldsNoTag(fields) ==
    [i \in DOMAIN fields |->
        [name |-> JsonString(fields[i].Name), type |-> JsonString(fields[i].Type),
         tag |-> <<>>]]

\* json.MarshalIndent of []FieldState: objects with the keys of the json tags
MarshalFields(fields) ==
    [i \in DOMAIN fields |->
        [name |-> JsonString(fields[i].Name), type |-> JsonString(fields[i].Type),
         tag |-> JsonString(fields[i].Tag)]]

\* json.MarshalIndent of MigrationState.Apps
MarshalState(apps) ==
    [a \in DOMAIN apps |->
        [last_hash |-> apps[a].LastHash,
         last_migration |-> JsonString(apps[a].LastMigration),
         models |-> [n \in DOMAIN apps[a].Models |->
                       [name |-> JsonString(apps[a].Models[n].Name),
                        hash |-> apps[a].Models[n].Hash,
                        fields |-> MarshalFields(apps[a].Models[n].Fields)]]]]

\* json.Unmarshal into MigrationState.Apps
UnmarshalState(doc) ==
    [a \in DOMAIN doc |->
        [LastHash |-> doc[a].last_hash,
         LastMigration |-> doc[a].last_migration,
         Models |-> [n \in DOMAIN doc[a].models |->
                       [Name |-> doc[a].models[n].name,
                        Hash |-> doc[a].models[n].hash,
                        Fields |-> [i \in DOMAIN doc[a].models[n].fields |->
                                      [Name |-> doc[a].models[n].fields[i].name,
                                       Type |-> doc[a].models[n].fields[i].type,
                                       Tag |-> doc[a].models[n].fields[i].tag]]]]]]

\* LoadMigrationState: an absent file gives an empty document and no error; a file
\* that cannot be read or parsed gives an error
LoadMigrationState(file, readOk) ==
    IF ~file.exists THEN [err |-> FALSE, Apps |-> <<>>]
    ELSE IF ~readOk THEN [err |-> TRUE, Apps |-> <<>>]
    ELSE [err |-> FALSE, Apps |-> UnmarshalState(file.apps)]

\* SaveMigrationState: the document replaces the file
SaveMigrationState(apps) == [exists |-> TRUE, apps |-> MarshalState(apps)]

\* the document a process reads from the file
Stored(file) == LoadMigrationState(file, TRUE).Apps

\* a bug: the list is hashed in the order given
SortByNameUnsorted(items) == items

\* sort.Slice by Name. Slices of fewer than 12 items are sorted by insertion, so
\* items of equal name keep the order they came in
RECURSIVE SortByName(_)
SortByName(items) ==
    IF items = <<>> THEN <<>>
    ELSE LET least == CHOOSE i \in DOMAIN items :
                          \A j \in DOMAIN items : j = i \/ ~StrLess(items[j].Name, items[i].Name)
         IN <<items[least]>> \o SortByName(RemoveAt(items, least))

\* the bytes written to the hash for the fields: "Name:Type:Tag" per field in name order
RECURSIVE FieldBytes(_)
FieldBytes(fields) ==
    IF fields = <<>> THEN <<>>
    ELSE fields[1].Name \o <<58>> \o fields[1].Type \o <<58>> \o fields[1].Tag
         \o FieldBytes(Tail(fields))

RECURSIVE ModelBytes(_)
ModelBytes(models) ==
    IF models = <<>> THEN <<>>
    ELSE models[1].Name \o FieldBytes(SortByName(models[1].Fields)) \o ModelBytes(Tail(models))

\* ComputeModelsHash: SHA-256 of the bytes written; a digest is represented by the
\* bytes it was computed from
ComputeModelsHash(models) == ModelBytes(SortByName(models))

\* ComputeSingleModelHash
ComputeSingleModelHash(model) == model.Name \o FieldBytes(SortByName(model.Fields))

ModelNames(models) == { models[i].Name : i \in DOMAIN models }

\* the entry the loop of UpdateMigrationState leaves under a model name: the last
\* model of that name
LastNamed(items, n) ==
    items[CHOOSE i \in DOMAIN items :
              items[i].Name = n /\ \A j \in DOMAIN items : items[j].Name = n => j <= i]

\* DetectModelChanges, on the loaded document: no entry for the app, or another
\* hash than the last one recorded
DetectModelChanges(apps, appName, models) ==
    appName \notin DOMAIN apps \/ apps[appName].LastHash # ComputeModelsHash(models)

\* UpdateMigrationState, on the loaded document: the app's entry is created when
\* absent, LastHash and LastMigration are set, and the entry of every current model
\* is overwritten; entries of models that are no longer current stay
UpdateMigrationState(apps, appName, models, migrationID) ==
    LET old == IF appName \in DOMAIN apps THEN apps[appName].Models ELSE <<>>
    IN [a \in DOMAIN apps \cup {appName} |->
          IF a = appName
          THEN [LastHash |-> ComputeModelsHash(models),
                LastMigration |-> migrationID,
                Models |-> [n \in DOMAIN old \cup ModelNames(models) |->
                              IF n \in ModelNames(models)
                              THEN [Name |-> n,
                                    Hash |-> ComputeSingleModelHash(LastNamed(models, n)),
                                    Fields |-> LastNamed(models, n).Fields]
                              ELSE old[n]]]
          ELSE apps[a]]

----------------------------------------------------------------------------
(* Change detection *)

NoChanges ==
    [NewModels |-> <<>>, DeletedModels |-> {}, NewFields |-> <<>>,
     DeletedFields |-> <<>>, ModifiedFields |-> <<>>]

\* the fields of current that are not stored
NewFieldsOf(stored, current) ==
    SelectSeq(current.Fields, LAMBDA f : f.Name \notin FieldNames(stored.Fields))

\* a bug: fields are matched by position, so a field whose name differs from the
\* stored field at its position counts as modified
ModifiedFieldsOfByPosition(stored, current) ==
    SelectSeq(current.Fields,
              LAMBDA f : \E i \in DOMAIN current.Fields \cap DOMAIN stored.Fields :
                             current.Fields[i] = f /\ stored.Fields[i] # f)

\* a bug: a change of tag alone is not a modification
ModifiedFieldsOfTypeOnly(stored, current) ==
    SelectSeq(current.Fields,
              LAMBDA f : /\ f.Name \in FieldNames(stored.Fields)
                         /\ LastNamed(stored.Fields, f.Name).Type # f.Type)

\* the fields of current that are stored with another type or tag
ModifiedFieldsOf(stored, current) ==
    SelectSeq(current.Fields,
              LAMBDA f : /\ f.Name \in FieldNames(stored.Fields)
                         /\ \/ LastNamed(stored.Fields, f.Name).Type # f.Type
                            \/ LastNamed(stored.Fields, f.Name).Tag # f.Tag)

\* the stored fields that are not in current
DeletedFieldsOf(stored, current) ==
    SelectSeq(stored.Fields, LAMBDA f : f.Name \notin FieldNames(current.Fields))

\* the list a model contributes to the map of that kind
FieldsOf(kind, stored, current) ==
    IF kind = "new" THEN NewFieldsOf(stored, current)
    ELSE IF kind = "deleted" THEN DeletedFieldsOf(stored, current)
    ELSE ModifiedFieldsOf(stored, current)

\* the map of that kind: a model gets a key only when its list is not empty
FieldMap(storedModels, currentModels, kind) ==
    LET keys == { n \in ModelNames(currentModels) \cap DOMAIN storedModels :
                    \E i \in DOMAIN currentModels :
                        /\ currentModels[i].Name = n
                        /\ FieldsOf(kind, storedModels[n], currentModels[i]) # <<>> }
    IN [n \in keys |-> FieldsOf(kind, storedModels[n], LastNamed(currentModels, n))]

\* a bug: stored models that are no longer current are not reported
DetectAllChangesNoDeletedModels(apps, appName, currentModels) ==
    IF appName \notin DOMAIN apps
    THEN [NoChanges EXCEPT !.NewModels = currentModels]
    ELSE LET storedModels == apps[appName].Models
         IN [NewModels |-> SelectSeq(currentModels, LAMBDA m : m.Name \notin DOMAIN storedModels),
             DeletedModels |-> {},
             NewFields |-> FieldMap(storedModels, currentModels, "new"),
             DeletedFields |-> FieldMap(storedModels, currentModels, "deleted"),
             ModifiedFields |-> FieldMap(storedModels, currentModels, "modified")]

\* a bug: without an entry for the app nothing is reported
DetectAllChangesNothingNew(apps, appName, currentModels) == NoChanges

\* DetectAllChanges, on the loaded document. DeletedModels is built by ranging over
\* a map, so its order is unspecified: it is kept as a set
DetectAllChanges(apps, appName, currentModels) ==
    IF appName \notin DOMAIN apps
    THEN [NoChanges EXCEPT !.NewModels = currentModels]
    ELSE LET storedModels == apps[appName].Models
         IN [NewModels |-> SelectSeq(currentModels, LAMBDA m : m.Name \notin DOMAIN storedModels),
             DeletedModels |-> DOMAIN storedModels \ ModelNames(currentModels),
             NewFields |-> FieldMap(storedModels, currentModels, "new"),
             DeletedFields |-> FieldMap(storedModels, currentModels, "deleted"),
             ModifiedFields |-> FieldMap(storedModels, currentModels, "modified")]

\* HasChanges
HasChanges(c) ==
    \/ Len(c.NewModels) > 0
    \/ Cardinality(c.DeletedModels) > 0
    \/ Cardinality(DOMAIN c.NewFields) > 0
    \/ Cardinality(DOMAIN c.DeletedFields) > 0
    \/ Cardinality(DOMAIN c.ModifiedFields) > 0

\* a bug: deleted fields do not count as destructive
HasDestructiveChangesModelsOnly(c) == Cardinality(c.DeletedModels) > 0

\* HasDestructiveChanges
HasDestructiveChanges(c) ==
    Cardinality(c.DeletedModels) > 0 \/ Cardinality(DOMAIN c.DeletedFields) > 0

----------------------------------------------------------------------------
(* bourbon makemigrations *)

\* the names given on the command line: none, or "Add Age"
Names == { <<>>, <<65, 100, 100, 32, 65, 103, 101>> }

Line(text) == [eof |-> FALSE, text |-> text]

NoInput == [eof |-> TRUE, text |-> <<>>]

\* what standard input holds when the prompt is read: nothing (end of input), or
\* the line "", "y", "Y", "yes" or "y n"
Stdins ==
    { NoInput, Line(<<>>), Line(<<121>>), Line(<<89>>),
      Line(<<121, 101, 115>>), Line(<<121, 32, 110>>) }

\* the first file operation that fails, if any
GenerateOutcomes == {"ok", "mkdir", "write", "save"}

\* GenerateMigrationForApp(appName, name) on models.go content src and state file
\* file at time now. The result is the state file and the migration files it
\* leaves, and a record of the call: the inputs it consumed, what it detected,
\* whether it asked, how it ended, and the migration id it chose
GenerateMigrationForApp(src, file, files, now, appName, name, readOk, stdin, io) ==
    LET scan == ScanModels(src)
        models == scan.models
        state == LoadMigrationState(file, readOk)
        changes == DetectAllChanges(state.Apps, appName, models)
        asked == HasDestructiveChanges(changes)
        response == Scanln(stdin)
        migrationID == MigrationID(now, name)
        call == [NoGen EXCEPT !.app = appName]
        same(g) == [file |-> file, files |-> files, gen |-> g]
        detected == [call EXCEPT !.changes = changes]
        answered == [detected EXCEPT !.asked = asked,
                                     !.stdin = IF asked THEN stdin ELSE NoInput]
        named == [answered EXCEPT !.name = name, !.id = migrationID]
        written == [files EXCEPT ![appName] = @ \cup {migrationID}]
    IN IF scan.err THEN same([call EXCEPT !.outcome = "scan error"])
       ELSE IF Len(models) = 0
       THEN same([call EXCEPT !.outcome = "no models"])
       ELSE IF state.err
       THEN same([call EXCEPT !.outcome = "detect error"])
       ELSE IF ~HasChanges(changes)
       THEN same([detected EXCEPT !.outcome = "no changes"])
       ELSE IF asked /\ ToLower(response) # <<121>>
       THEN same([answered EXCEPT !.outcome = "cancelled"])
       ELSE IF io = "mkdir"
       THEN same([answered EXCEPT !.outcome = "mkdir error"])
       ELSE IF io = "write"
       THEN same([named EXCEPT !.outcome = "write error"])
       ELSE IF io = "save"
       THEN [file |-> file, files |-> written, gen |-> [named EXCEPT !.outcome = "state error"]]
       ELSE [file |-> SaveMigrationState(
                          UpdateMigrationState(state.Apps, appName, models, migrationID)),
             files |-> written,
             gen |-> [named EXCEPT !.outcome = "created"]]

\* whether the call gets to read the state file, to the prompt, and past the gate
ReadsState(src, file, appName) ==
    file.exists
    /\ GenerateMigrationForApp(src, file, [a \in Apps |-> {}], 0, appName, <<>>,
                               FALSE, NoInput, "ok").gen.outcome = "detect error"

Asks(src, file, appName, readOk) ==
    GenerateMigrationForApp(src, file, [a \in Apps |-> {}], 0, appName, <<>>,
                            readOk, NoInput, "ok").gen.asked

Proceeds(src, file, appName, readOk, stdin) ==
    GenerateMigrationForApp(src, file, [a \in Apps |-> {}], 0, appName, <<>>,
                            readOk, stdin, "mkdir").gen.outcome = "mkdir error"

\* one run of the command, with the name taken from names; an input is chosen only
\* when the call gets to consume it
DoGenerateMigrationForApp(names) ==
    /\ Len(generated) < MaxGen
    /\ \E appName \in Apps :
        \E readOk \in IF ReadsState(source[appName], stateFile, appName)
                      THEN BOOLEAN ELSE {TRUE} :
        \E stdin \in IF Asks(source[appName], stateFile, appName, readOk)
                     THEN Stdins ELSE {NoInput} :
        \E rest \in IF Proceeds(source[appName], stateFile, appName, readOk, stdin)
                    THEN names \X GenerateOutcomes ELSE {<< <<>>, "ok" >>} :
           LET r == GenerateMigrationForApp(source[appName], stateFile, migFiles, clock,
                                            appName, rest[1], readOk, stdin, rest[2])
           IN /\ stateFile' = r.file
              /\ migFiles' = r.files
              /\ gen' = r.gen
              /\ generated' = IF r.gen.outcome = "created"
                              THEN Append(generated, r.gen.id) ELSE generated
              /\ recorded' = IF r.gen.outcome = "created"
                             THEN [recorded EXCEPT
                                     ![appName] = [set |-> TRUE,
                                                   models |-> ScanModels(source[appName]).models]]
                             ELSE recorded
    /\ UNCHANGED <<source, clock, edits>>
    /\ UNCHANGED ledgerVars
    /\ UNCHANGED sideVars

\* makemigrations without a name
MakeMigrations == DoGenerateMigrationForApp({<<>>})

\* makemigrations with or without a name
MakeNamedMigrations == DoGenerateMigrationForApp(Names)

\* the app under development
Editable == {"blog"}

\* the developer edits its models.go; what the last call printed scrolls away
EditModels ==
    /\ edits < MaxEdits
    /\ \E app \in Editable :
           \E src \in Edits(app, source[app]) :
               source' = [source EXCEPT ![app] = src]
    /\ edits' = edits + 1
    /\ gen' = NoGen
    /\ UNCHANGED <<stateFile, migFiles, clock, generated, recorded>>
    /\ UNCHANGED ledgerVars
    /\ UNCHANGED sideVars

\* a second passes
Tick ==
    /\ clock < MaxTime
    /\ clock' = clock + 1
    /\ UNCHANGED <<source, stateFile, migFiles, edits, generated, recorded, gen>>
    /\ UNCHANGED ledgerVars
    /\ UNCHANGED sideVars

GenInit ==
    /\ source \in [Apps -> UNION { InitialSources(a) : a \in Apps }]
    /\ \A a \in Apps : source[a] \in InitialSources(a)
    /\ stateFile = NoStateFile
    /\ migFiles = [a \in Apps |-> {}]
    /\ clock = 0
    /\ edits = 0
    /\ generated = <<>>
    /\ recorded = [a \in Apps |-> [set |-> FALSE, models |-> <<>>]]
    /\ gen = NoGen
    /\ schema = "DjangoMigration"
    /\ registry = [a \in Apps |-> <<>>]
    /\ ledger = <<>>
    /\ gmRegistry = <<>>
    /\ gmLedger = <<>>
    /\ last = NoCall
    /\ SideIdle

\* models are edited and migrations generated; change detection reads neither the
\* clock nor the name, and both stay fixed
GenNext ==
    \/ MakeMigrations
    \/ EditModels

SpecGen == GenInit /\ [][GenNext]_vars

\* migrations are generated under any name while time passes
IdsNext ==
    \/ MakeNamedMigrations
    \/ Tick

SpecIds == GenInit /\ [][IdsNext]_vars

----------------------------------------------------------------------------
(* Properties of makemigrations *)

\* a step that is a call of GenerateMigrationForApp
CallStep == edits' = edits /\ clock' = clock

\* the outcomes of a call that got its change set from DetectAllChanges
Detected ==
    {"no changes", "cancelled", "mkdir error", "write error", "state error", "created"}

\* the outcomes of a call that returned an error
Failed ==
    {"scan error", "no models", "detect error", "mkdir error", "write error", "state error"}

\* the outcomes of a call that wrote a migration file
Wrote == {"state error", "created"}

\* the call left the migration files and the state file as they were
NothingWritten(g) ==
    /\ g.outcome \notin Wrote
    /\ UNCHANGED <<migFiles, stateFile, generated>>

\* the change set holds a deleted model or a deleted field
Destructive(c) ==
    c.DeletedModels # {} \/ \E n \in DOMAIN c.DeletedFields : c.DeletedFields[n] # <<>>

\* the line typed at the prompt, "" at end of input
ResponseLine(stdin) == IF stdin.eof THEN <<>> ELSE stdin.text

\* C6 (as stated): of any two migration ids of successful GenerateMigrationForApp
\* calls, the one generated later orders after the one generated earlier, so the
\* two differ
C6_IdsUniqueAndIncreasing ==
    \A i, j \in DOMAIN generated : i < j => StrLess(generated[i], generated[j])

\* C7 (as stated): a call that detects a deleted model or a deleted field writes no
\* migration file and leaves the persisted state alone unless the response line is
\* exactly "y" or "Y"; a call that detects neither does not ask
C7_GateNeedsExactlyY ==
    [][ (CallStep /\ gen'.outcome \in Detected) =>
          /\ (Destructive(gen'.changes) /\ ToLower(ResponseLine(gen'.stdin)) # <<121>>)
                => NothingWritten(gen')
          /\ ~Destructive(gen'.changes) => ~gen'.asked ]_vars

\* C7 (amended): a call that detects a deleted model or a deleted field asks, and
\* writes no migration file and leaves the persisted state alone unless the first
\* blank-delimited word of the response line is "y" or "Y"; an empty line, end of
\* input or another first word cancels; a call that detects neither does not ask
C7_GateNeedsFirstWordY ==
    [][ (CallStep /\ gen'.outcome \in Detected) =>
          /\ Destructive(gen'.changes) =>
                /\ gen'.asked
                /\ TakeToken(SkipSpace(ResponseLine(gen'.stdin))) \notin {<<121>>, <<89>>}
                      => (NothingWritten(gen') /\ gen'.outcome = "cancelled")
          /\ ~Destructive(gen'.changes) => ~gen'.asked ]_vars

\* C7 witness: a deleted field was detected, the prompt met end of input, and the
\* call was cancelled
C7_Witness ==
    /\ gen.outcome = "cancelled"
    /\ gen.asked
    /\ gen.stdin = NoInput
    /\ DOMAIN gen.changes.DeletedFields # {}

\* the names a map of the change set lists under model n
Listed(map, n) == IF n \in DOMAIN map THEN FieldNames(map[n]) ELSE {}

\* the field named x is stored and current with another type or tag
Differs(storedFields, currentFields, x) ==
    \E i \in DOMAIN storedFields, j \in DOMAIN currentFields :
        /\ storedFields[i].Name = x
        /\ currentFields[j].Name = x
        /\ storedFields[i].Type # currentFields[j].Type
           \/ storedFields[i].Tag # currentFields[j].Tag

\* the classification of the fields of model n that C8 states
Classified(storedFields, currentFields, c, n) ==
    \A x \in FieldNames(storedFields) \cup FieldNames(currentFields) :
        LET inStored == x \in FieldNames(storedFields)
            inCurrent == x \in FieldNames(currentFields)
            isNew == x \in Listed(c.NewFields, n)
            isDeleted == x \in Listed(c.DeletedFields, n)
            isModified == x \in Listed(c.ModifiedFields, n)
        IN /\ isNew <=> (inCurrent /\ ~inStored)
           /\ isDeleted <=> (inStored /\ ~inCurrent)
           /\ isModified <=> (inStored /\ inCurrent /\ Differs(storedFields, currentFields, x))
           /\ ~(isNew /\ isDeleted) /\ ~(isNew /\ isModified) /\ ~(isDeleted /\ isModified)

\* the models.go of the app as ScanModels reads it: the current models
Current(app) == ScanModels(source[app]).models

\* the state file holds an entry for the app
HasEntry(file, app) == file.exists /\ app \in DOMAIN file.apps

\* C8: for every model both in the persisted state and in the current models, each
\* field name of the stored or the current fields is in NewFields iff it is only
\* current, in DeletedFields iff it is only stored, in ModifiedFields iff it is in
\* both with another type or tag, and so in at most one of the three, and in none
\* iff it is in both with equal type and tag
C8_FieldsClassifiedOnce ==
    [][ (CallStep /\ gen'.outcome \in Detected /\ HasEntry(stateFile, gen'.app)) =>
          \A n \in ModelNames(Current(gen'.app)) \cap DOMAIN Stored(stateFile)[gen'.app].Models :
              Classified(Stored(stateFile)[gen'.app].Models[n].Fields,
                         LastNamed(Current(gen'.app), n).Fields, gen'.changes, n) ]_vars

\* C8 witness: a call found a modified field in a stored model that has an unchanged
\* field as well
C8_Witness ==
    /\ gen.outcome = "created"
    /\ \E n \in DOMAIN gen.changes.ModifiedFields :
           /\ n \notin DOMAIN gen.changes.NewFields
           /\ n \notin DOMAIN gen.changes.DeletedFields
           /\ Len(LastNamed(Current(gen.app), n).Fields) > Len(gen.changes.ModifiedFields[n])

\* C9: with no state file, or no entry for the app in it, every current model is
\* reported as new, and no deleted model and no new, deleted or modified field is
C9_NoStateAllNew ==
    [][ (CallStep /\ gen'.outcome \in Detected /\ ~HasEntry(stateFile, gen'.app)) =>
          gen'.changes = [NoChanges EXCEPT !.NewModels = Current(gen'.app)] ]_vars

\* C9 witness: a first call for shop reported its model as new and created the state
\* file, which holds no entry for blog
C9_Witness ==
    /\ gen.outcome = "created"
    /\ gen.app = "shop"
    /\ gen.changes = [NoChanges EXCEPT !.NewModels = Current("shop")]
    /\ Len(generated) = 1
    /\ HasEntry(stateFile, "shop")
    /\ ~HasEntry(stateFile, "blog")

\* model i of models with field f added at the end
WithField(models, i, f) == [models EXCEPT ![i].Fields = Append(@, f)]

\* C10 (as stated): once the state was recorded from models M1 by
\* UpdateMigrationState, for M2 that is M1 with one field added to one model,
\* DetectAllChanges reports that field alone in NewFields under that model, and no
\* new model, deleted model, deleted field or modified field
C10_OneAddedFieldOnly ==
    \A a \in Apps :
        recorded[a].set =>
            \A i \in DOMAIN recorded[a].models :
                \A f \in { g \in FieldPool(recorded[a].models[i].Name) :
                             g.Name \notin FieldNames(recorded[a].models[i].Fields) } :
                    DetectAllChanges(LoadMigrationState(stateFile, TRUE).Apps, a,
                                     WithField(recorded[a].models, i, f))
                    = [NoChanges EXCEPT
                         !.NewFields = [n \in {recorded[a].models[i].Name} |-> <<f>>]]

\* current is stored with the field at position i renamed: another name that is not
\* stored, the same type and tag, every other field as stored
RenamedAt(storedFields, currentFields, i) ==
    /\ Len(currentFields) = Len(storedFields)
    /\ i \in DOMAIN storedFields
    /\ currentFields[i].Name # storedFields[i].Name
    /\ currentFields[i].Name \notin FieldNames(storedFields)
    /\ currentFields[i].Type = storedFields[i].Type
    /\ currentFields[i].Tag = storedFields[i].Tag
    /\ \A j \in DOMAIN storedFields : j # i => currentFields[j] = storedFields[j]

\* C11: when a field of a persisted model is renamed (same type and tag, another
\* name), DetectAllChanges lists the old field once in DeletedFields and the new
\* field once in NewFields under that model, and nothing in ModifiedFields
C11_RenameIsDeletePlusAdd ==
    [][ (CallStep /\ gen'.outcome \in Detected /\ HasEntry(stateFile, gen'.app)) =>
          \A n \in ModelNames(Current(gen'.app)) \cap DOMAIN Stored(stateFile)[gen'.app].Models :
              \A i \in DOMAIN Stored(stateFile)[gen'.app].Models[n].Fields :
                  RenamedAt(Stored(stateFile)[gen'.app].Models[n].Fields,
                            LastNamed(Current(gen'.app), n).Fields, i) =>
                      /\ n \in DOMAIN gen'.changes.DeletedFields
                      /\ gen'.changes.DeletedFields[n]
                           = <<Stored(stateFile)[gen'.app].Models[n].Fields[i]>>
                      /\ n \in DOMAIN gen'.changes.NewFields
                      /\ gen'.changes.NewFields[n]
                           = <<LastNamed(Current(gen'.app), n).Fields[i]>>
                      /\ n \notin DOMAIN gen'.changes.ModifiedFields ]_vars

\* C11 witness: Name of the stored User was renamed to Email, and the call that
\* detected it was confirmed and wrote the migration
C11_Witness ==
    /\ gen.outcome = "created"
    /\ gen.changes.DeletedFields = [n \in {NUser} |-> <<Field(FName, TString, <<>>)>>]
    /\ gen.changes.NewFields = [n \in {NUser} |-> <<Field(FEmail, TString, <<>>)>>]

\* C12: with an entry for the app in the state file, DeletedModels is the set of
\* stored model names that are not current, NewModels is the current models whose
\* name is not stored, in order, and no model is in both
C12_DeletedAndNewModels ==
    [][ (CallStep /\ gen'.outcome \in Detected /\ HasEntry(stateFile, gen'.app)) =>
          /\ gen'.changes.DeletedModels
               = DOMAIN Stored(stateFile)[gen'.app].Models \ ModelNames(Current(gen'.app))
          /\ gen'.changes.NewModels
               = SelectSeq(Current(gen'.app),
                           LAMBDA m : m.Name \notin DOMAIN Stored(stateFile)[gen'.app].Models)
          /\ gen'.changes.DeletedModels \cap ModelNames(gen'.changes.NewModels) = {} ]_vars

\* C12 witness: Post is stored and no longer current, and a call reported it deleted
C12_Witness ==
    /\ gen.outcome \in Detected
    /\ gen.changes.DeletedModels = {NPost}
    /\ HasEntry(stateFile, gen.app)

\* the lists of models that differ from models in the order of the models or of the
\* fields inside models only
Reorderings(models) ==
    UNION { { [i \in DOMAIN P |-> [P[i] EXCEPT !.Fields = fp[i]]] :
                fp \in { f \in [DOMAIN P -> UNION { Perms(Range(P[k].Fields)) : k \in DOMAIN P }] :
                           \A i \in DOMAIN P : Range(f[i]) = Range(P[i].Fields) } } :
            P \in Perms(Range(models)) }

----------------------------------------------------------------------------
(* The hash functions, called on any slice *)

\* the lists of at most n different items of S
ListsOf(S, n) ==
    UNION { { l \in [1..k -> S] : \A i, j \in 1..k : l[i] = l[j] => i = j } : k \in 0..n }

\* the fields of the models passed in: two of them of one name
HashFields ==
    { Field(FName, TString, <<>>), Field(FName, TInt, <<>>), Field(FEmail, TString, <<>>) }

\* the models passed in: each field list under each of two names
HashModels ==
    { [Name |-> n, Fields |-> fs] : n \in {NUser, NPost}, fs \in ListsOf(HashFields, MaxHashFields) }

\* ComputeModelsHash(models), and ComputeSingleModelHash of each of its models
DoComputeModelsHash ==
    /\ ~hashed.done
    /\ hashed' = [hashed EXCEPT
                    !.done = TRUE,
                    !.sum = ComputeModelsHash(hashed.models),
                    !.single = [i \in DOMAIN hashed.models |->
                                  ComputeSingleModelHash(hashed.models[i])]]
    /\ UNCHANGED <<ledgerVars, genVars, coded, updated, server, runVars>>

\* a caller is about to hash some slice of models
HashInit ==
    /\ schema = "DjangoMigration"
    /\ registry = [a \in Apps |-> <<>>]
    /\ ledger = <<>>
    /\ gmRegistry = <<>>
    /\ gmLedger = <<>>
    /\ last = NoCall
    /\ GenIdle
    /\ hashed \in { [NoHash EXCEPT !.models = m] : m \in ListsOf(HashModels, MaxHashModels) }
    /\ coded = NoCode
    /\ updated = NoUpdate
    /\ server = NoServer
    /\ RunIdle

HashNext == DoComputeModelsHash

SpecHash == HashInit /\ [][HashNext]_vars

\* the digests of the slice are the digests of every reordering of it
SameForReorderings(h) ==
    /\ \A R \in Reorderings(h.models) : ComputeModelsHash(R) = h.sum
    /\ \A i \in DOMAIN h.models :
           \A fs \in Perms(Range(h.models[i].Fields)) :
               ComputeSingleModelHash([h.models[i] EXCEPT !.Fields = fs]) = h.single[i]

\* the models have different names, and so have the fields of each model
DistinctNames(models) ==
    /\ \A i, j \in DOMAIN models : models[i].Name = models[j].Name => i = j
    /\ \A k \in DOMAIN models :
           \A i, j \in DOMAIN models[k].Fields :
               models[k].Fields[i].Name = models[k].Fields[j].Name => i = j

C14_ReorderingIsNoChange ==
    \A a \in Apps :
        (recorded[a].set /\ HasEntry(stateFile, a)) =>
            \A R \in Reorderings(recorded[a].models) :
                /\ ~HasChanges(DetectAllChanges(LoadMigrationState(stateFile, TRUE).Apps, a, R))
                /\ ~DetectModelChanges(LoadMigrationState(stateFile, TRUE).Apps, a, R)

\* C15: when models.go exists and does not parse, ScanModels returns an error, and
\* GenerateMigrationForApp returns an error without running change detection,
\* writing a migration file or changing the persisted state
C15_ParseErrorAborts ==
    [][ (CallStep /\ gen'.outcome # "none" /\ source[gen'.app].kind = "unparsable") =>
          /\ ScanModels(source[gen'.app]).err
          /\ gen'.outcome = "scan error"
          /\ gen'.outcome \in Failed
          /\ gen'.changes = NoChanges
          /\ ~gen'.asked
          /\ NothingWritten(gen') ]_vars

\* C15 witness: a state was recorded, models.go was then broken, and the next call
\* failed in ScanModels
C15_Witness ==
    /\ gen.outcome = "scan error"
    /\ source[gen.app].kind = "unparsable"
    /\ HasEntry(stateFile, gen.app)
    /\ migFiles[gen.app] # {}

\* C16 (as stated): a call that wrote the migration file and then failed to persist
\* the state (the state file is as it was) returns no error, and the migration
\* file stays in place
C16_StateFailureIsWarning ==
    [][ (CallStep /\ gen'.outcome \in Wrote /\ stateFile' = stateFile) =>
          /\ gen'.outcome \notin Failed
          /\ gen'.id \in migFiles'[gen'.app] ]_vars

----------------------------------------------------------------------------
(* The code generators *)

\* the loop of toSnakeCase and fieldToSnakeCase: "_" before every upper-case letter
\* but the first
RECURSIVE Underscored(_, _)
Underscored(str, i) ==
    IF i > Len(str) THEN <<>>
    ELSE (IF i > 1 /\ str[i] >= 65 /\ str[i] <= 90 THEN <<95>> ELSE <<>>)
         \o <<str[i]>> \o Underscored(str, i + 1)

\* fieldToSnakeCase
FieldToSnakeCase(str) == ToLower(Underscored(str, 1))

\* toSnakeCase: snake case, with "s" appended unless it ends in "s"
ToSnakeCase(str) ==
    LET snake == ToLower(Underscored(str, 1))
    IN IF snake # <<>> /\ snake[Len(snake)] = 115 THEN snake ELSE snake \o <<115>>

\* one statement of generated code: the struct type it declares with its field
\* lines, the Migrator operation it calls, and the column or table it names
Stmt(op, type, decl, arg) == [op |-> op, type |-> type, decl |-> decl, arg |-> arg]

\* generateCreateTableCode
generateCreateTableCode(model) ==
    Stmt("CreateTable", FieldToSnakeCase(model.Name), model.Fields, <<>>)

\* generateAddColumnCode
generateAddColumnCode(modelName, field) ==
    Stmt("AddColumn", FieldToSnakeCase(modelName), <<field>>, field.Name)

\* a bug: the column dropped is named in snake case, not as AddColumn names it
generateDropColumnCodeSnakeColumn(modelName, field) ==
    Stmt("DropColumn", FieldToSnakeCase(modelName), <<field>>, FieldToSnakeCase(field.Name))

\* generateDropColumnCode
generateDropColumnCode(modelName, field) ==
    Stmt("DropColumn", FieldToSnakeCase(modelName), <<field>>, field.Name)

\* generateDropTableCode
generateDropTableCode(modelName) == Stmt("DropTable", <<>>, <<>>, ToSnakeCase(modelName))

\* the comment written for the table of a deleted model
RecreateTodo(modelName) == Stmt("TODO", <<>>, <<>>, modelName)

\* the statements of the loops over a map of fields, its keys ranged over in order
RECURSIVE ForFields(_, _, _)
ForFields(map, order, op) ==
    IF order = <<>> THEN <<>>
    ELSE [i \in DOMAIN map[order[1]] |->
            IF op = "AddColumn" THEN generateAddColumnCode(order[1], map[order[1]][i])
            ELSE generateDropColumnCode(order[1], map[order[1]][i])]
         \o ForFields(map, Tail(order), op)

\* the orders in which the maps and the DeletedModels slice of a change set can be
\* ranged over: the order of a map range is unspecified, and DeletedModels was
\* filled by a map range
Orders(c) ==
    [nf : Perms(DOMAIN c.NewFields), df : Perms(DOMAIN c.DeletedFields),
     dm : Perms(c.DeletedModels)]

\* GenerateMigrationCodeFromChanges; "return nil" ends the code
GenerateMigrationCodeFromChanges(c, order) ==
    [i \in DOMAIN c.NewModels |-> generateCreateTableCode(c.NewModels[i])]
    \o ForFields(c.NewFields, order.nf, "AddColumn")
    \o ForFields(c.DeletedFields, order.df, "DropColumn")
    \o [i \in DOMAIN order.dm |-> generateDropTableCode(order.dm[i])]

\* GenerateRollbackCodeFromChanges; "return nil" ends the code
GenerateRollbackCodeFromChanges(c, order) ==
    [i \in DOMAIN c.NewModels |-> generateDropTableCode(c.NewModels[i].Name)]
    \o ForFields(c.NewFields, order.nf, "DropColumn")
    \o ForFields(c.DeletedFields, order.df, "AddColumn")
    \o [i \in DOMAIN order.dm |-> RecreateTodo(order.dm[i])]

----------------------------------------------------------------------------
(* The code generators, called on any change set *)

\* the fields a change set names
CodeFields ==
    { Field(FName, TString, <<>>), Field(FEmail, TString, TagIndex), Field(FTitle, TInt, <<>>) }

\* lists of fields with distinct names, each list one kind of change to one model
CodeFieldLists ==
    { l \in ListsOf(CodeFields, MaxCodeFields) :
        \A i, j \in DOMAIN l : l[i].Name = l[j].Name => i = j }

\* maps from some existing models to the non-empty lists of their changed fields
CodeFieldMaps ==
    UNION { [ks -> CodeFieldLists \ {<<>>}] : ks \in SUBSET {NUser, NPost} }

\* the modified fields of a change set: none, or the changed declaration of one field
CodeModifiedMaps ==
    { <<>> } \cup { [n \in {NUser} |-> <<f>>] : f \in CodeFields }

\* the change sets DetectAllChanges can return over these models: no field of a
\* model is both new and deleted, and a modified field is neither
CodeChanges ==
    { c \in [NewModels : {<<>>, <<[Name |-> NItem, Fields |-> <<Field(FSku, TString, <<>>)>>]>>},
             DeletedModels : SUBSET {NHelper},
             NewFields : CodeFieldMaps,
             DeletedFields : CodeFieldMaps,
             ModifiedFields : CodeModifiedMaps] :
        /\ \A n \in DOMAIN c.NewFields \cap DOMAIN c.DeletedFields :
              FieldNames(c.NewFields[n]) \cap FieldNames(c.DeletedFields[n]) = {}
        /\ \A n \in DOMAIN c.ModifiedFields :
              /\ n \in DOMAIN c.NewFields =>
                    FieldNames(c.ModifiedFields[n]) \cap FieldNames(c.NewFields[n]) = {}
              /\ n \in DOMAIN c.DeletedFields =>
                    FieldNames(c.ModifiedFields[n]) \cap FieldNames(c.DeletedFields[n]) = {} }

\* GenerateMigrationCodeFromChanges and GenerateRollbackCodeFromChanges on one change set
DoGenerateCode ==
    /\ ~coded.done
    /\ \E order \in Orders(coded.changes), back \in Orders(coded.changes) :
          coded' = [coded EXCEPT !.done = TRUE,
                       !.migrate = GenerateMigrationCodeFromChanges(coded.changes, order),
                       !.rollback = GenerateRollbackCodeFromChanges(coded.changes, back)]
    /\ UNCHANGED <<ledgerVars, genVars, hashed, updated, server, runVars>>

\* a caller is about to generate the code of some change set
CodeInit ==
    /\ schema = "DjangoMigration"
    /\ registry = [a \in Apps |-> <<>>]
    /\ ledger = <<>>
    /\ gmRegistry = <<>>
    /\ gmLedger = <<>>
    /\ last = NoCall
    /\ GenIdle
    /\ hashed = NoHash
    /\ coded \in { [NoCode EXCEPT !.changes = c] : c \in CodeChanges }
    /\ updated = NoUpdate
    /\ server = NoServer
    /\ RunIdle

CodeNext == DoGenerateCode

SpecCode == CodeInit /\ [][CodeNext]_vars

\* a change set that contains only new fields
OnlyNewFields(c) ==
    /\ c.NewModels = <<>> /\ c.DeletedModels = {}
    /\ c.DeletedFields = <<>> /\ c.ModifiedFields = <<>>

\* the new fields of a change set, each with its model
NewFieldPairs(c) ==
    UNION { { <<n, c.NewFields[n][i]>> : i \in DOMAIN c.NewFields[n] } : n \in DOMAIN c.NewFields }

\* the code is exactly one op statement per pair, on the pair's model and field name
OnePerField(code, op, pairs) ==
    /\ \A k \in DOMAIN code : code[k].op = op
    /\ Len(code) = Cardinality(pairs)
    /\ \A p \in pairs :
          Cardinality({ k \in DOMAIN code :
                          /\ code[k].type = FieldToSnakeCase(p[1])
                          /\ code[k].arg = p[2].Name }) = 1

\* C17: for a change set of new fields only, Migrate is exactly one AddColumn per
\* new field and nothing else, and Rollback is exactly one DropColumn per new field,
\* on the same model and field name, and nothing else
C17_AddColumnAndItsDrop ==
    (coded.done /\ OnlyNewFields(coded.changes)) =>
        /\ OnePerField(coded.migrate, "AddColumn", NewFieldPairs(coded.changes))
        /\ OnePerField(coded.rollback, "DropColumn", NewFieldPairs(coded.changes))

\* code was generated for new fields of two models, two of them in one model
C17_Witness ==
    /\ coded.done /\ OnlyNewFields(coded.changes)
    /\ DOMAIN coded.changes.NewFields = {NUser, NPost}
    /\ Len(coded.changes.NewFields[NUser]) = 2
    /\ Len(coded.migrate) = 3 /\ Len(coded.rollback) = 3
    /\ coded.migrate[1].type # coded.rollback[1].type

----------------------------------------------------------------------------
(* The state document, written by one process and read by a later one *)

\* the models UpdateMigrationState is called with
StateModels ==
    { [Name |-> NUser, Fields |-> <<Field(FName, TString, <<>>)>>],
      [Name |-> NUser, Fields |-> <<Field(FName, TString, <<>>), Field(FEmail, TString, TagIndex)>>],
      [Name |-> NPost, Fields |-> <<Field(FTitle, TString, <<>>)>>] }

\* what .bourbon/migration_state.json may hold before the call: nothing, the state of
\* another app, or an earlier state of the same app
StateFiles ==
    { NoStateFile,
      SaveMigrationState(UpdateMigrationState(<<>>, "shop",
          <<[Name |-> NItem, Fields |-> <<Field(FSku, TString, <<>>)>>]>>, MigrationID(0, <<>>))),
      SaveMigrationState(UpdateMigrationState(<<>>, "blog",
          <<[Name |-> NUser, Fields |-> <<Field(FEmail, TString, <<>>)>>],
            [Name |-> NItem, Fields |-> <<Field(FSku, TString, <<>>)>>]>>, MigrationID(0, <<>>))) }

\* UpdateMigrationState(app, models, id): load, change the app's entry, save
DoUpdateMigrationState ==
    /\ updated.result = "none"
    /\ \E readOk \in (IF stateFile.exists THEN BOOLEAN ELSE {TRUE}) :
          LET state == LoadMigrationState(stateFile, readOk)
          IN IF state.err
             THEN /\ updated' = [updated EXCEPT !.result = "error", !.loaded = NoLoad]
                  /\ UNCHANGED stateFile
             ELSE \E saveOk \in BOOLEAN :
                     IF saveOk
                     THEN /\ stateFile' = SaveMigrationState(
                                 UpdateMigrationState(state.Apps, updated.app, updated.models,
                                                      updated.id))
                          /\ updated' = [updated EXCEPT !.result = "ok", !.loaded = NoLoad]
                     ELSE /\ updated' = [updated EXCEPT !.result = "error", !.loaded = NoLoad]
                          /\ UNCHANGED stateFile
    /\ UNCHANGED <<source, migFiles, clock, edits, generated, recorded, gen>>
    /\ UNCHANGED <<ledgerVars, hashed, coded, server, runVars>>

\* LoadMigrationState in a process that starts now
DoLoadMigrationState ==
    /\ ~updated.loaded.called
    /\ \E readOk \in (IF stateFile.exists THEN BOOLEAN ELSE {TRUE}) :
          LET state == LoadMigrationState(stateFile, readOk)
          IN updated' = [updated EXCEPT !.loaded = [called |-> TRUE, err |-> state.err,
                                                    Apps |-> state.Apps]]
    /\ UNCHANGED genVars
    /\ UNCHANGED <<ledgerVars, hashed, coded, server, runVars>>

\* a process is about to call UpdateMigrationState
StateInit ==
    /\ schema = "DjangoMigration"
    /\ registry = [a \in Apps |-> <<>>]
    /\ ledger = <<>>
    /\ gmRegistry = <<>>
    /\ gmLedger = <<>>
    /\ last = NoCall
    /\ source = [a \in Apps |-> [kind |-> "missing", structs |-> <<>>]]
    /\ stateFile \in StateFiles
    /\ migFiles = [a \in Apps |-> {}]
    /\ clock = 0
    /\ edits = 0
    /\ generated = <<>>
    /\ recorded = [a \in Apps |-> [set |-> FALSE, models |-> <<>>]]
    /\ gen = NoGen
    /\ hashed = NoHash
    /\ coded = NoCode
    /\ updated \in { [NoUpdate EXCEPT !.app = "blog", !.models = m, !.id = MigrationID(1, <<>>)] :
                       m \in ListsOf(StateModels, MaxStateModels) }
    /\ server = NoServer
    /\ RunIdle

StateNext == DoUpdateMigrationState \/ DoLoadMigrationState

SpecState == StateInit /\ [][StateNext]_vars

\* the entry a later process loads has the id just recorded
LoadedLastMigration ==
    /\ updated.app \in DOMAIN updated.loaded.Apps
    /\ updated.loaded.Apps[updated.app].LastMigration = updated.id

\* the loaded entry stores the model with its fields, in order
LoadedModel(model) ==
    /\ model.Name \in DOMAIN updated.loaded.Apps[updated.app].Models
    /\ updated.loaded.Apps[updated.app].Models[model.Name].Fields = model.Fields

\* a load without a state file gives the empty state and no error
LoadedEmptyWithoutFile ==
    (updated.loaded.called /\ ~stateFile.exists) =>
        ~updated.loaded.err /\ updated.loaded.Apps = <<>>

\* a later process loaded the state after UpdateMigrationState succeeded
LoadedAfterUpdate == updated.result = "ok" /\ updated.loaded.called /\ ~updated.loaded.err

----------------------------------------------------------------------------
(* cmd.Run: the commands and the server *)

\* handleMigrate: NewApplication, ConnectDB, core.RunMigrations
handleMigrate(rows, migs, connectOk, pluckOk, outs) ==
    IF ~connectOk
    THEN [rows |-> rows, err |-> "failed to connect to database", up |-> <<>>]
    ELSE RunMigrations(rows, migs, pluckOk, outs)

\* Run with os.Args = [main, "migrate"]
CmdMigrate ==
    /\ \E connectOk \in BOOLEAN :
       \E pluckOk \in (IF connectOk THEN BOOLEAN ELSE {TRUE}) :
       \E outs \in (IF connectOk THEN [GmMigs -> RunOutcomes] ELSE {[m \in GmMigs |-> "ok"]}) :
          LET r == handleMigrate(gmLedger, gmRegistry, connectOk, pluckOk, outs)
          IN /\ gmLedger' = r.rows
             /\ last' = Call("migrate", <<>>, IF r.err = "" THEN "ok" ELSE "stopped",
                             r.err, r.up, <<>>, 0)
    /\ UNCHANGED <<schema, registry, ledger, gmRegistry>>
    /\ UNCHANGED genVars
    /\ UNCHANGED sideVars

\* what the custom initialization hook does: none is registered, or the hook of the
\* project template (middleware and routes) returns nil or an error
Hooks == {"none", "ok", "fail"}

\* Run without a command: StartServer up to the point where app.Run has started
\* ListenAndServe and waits for a signal; a failure before that exits the process
StartServer ==
    /\ server.pc = "down"
    /\ \E connectOk \in BOOLEAN :
       \E hook \in (IF connectOk THEN Hooks ELSE {"none"}) :
          server' = IF connectOk /\ hook # "fail"
                    THEN [pc |-> "serving", init |-> hook]
                    ELSE [pc |-> "down", init |-> hook]
    /\ last' = Call("StartServer", <<>>, "ok", "", <<>>, <<>>, 0)
    /\ UNCHANGED <<schema, registry, ledger, gmRegistry, gmLedger>>
    /\ UNCHANGED genVars
    /\ UNCHANGED <<hashed, coded, updated, runVars>>

\* SIGINT or SIGTERM: app.Run shuts the server down and returns
StopServer ==
    /\ server.pc = "serving"
    /\ server' = NoServer
    /\ last' = Call("StopServer", <<>>, "ok", "", <<>>, <<>>, 0)
    /\ UNCHANGED <<schema, registry, ledger, gmRegistry, gmLedger>>
    /\ UNCHANGED genVars
    /\ UNCHANGED <<hashed, coded, updated, runVars>>

\* the application binary, with its migration packages linked in and an empty
\* bourbon_migrations table
CliInit ==
    /\ schema = "MigrationRecord"
    /\ registry = [a \in Apps |-> <<>>]
    /\ gmRegistry \in GmRegistrations
    /\ ledger = <<>>
    /\ gmLedger = <<>>
    /\ last = NoCall
    /\ GenIdle
    /\ SideIdle

\* gormigrate's RollbackLast, called by GormigrateRunner.RollbackLast: the last
\* registered migration whose id is in the table is rolled back and its id deleted,
\* without a transaction (DefaultOptions.UseTransaction is false)
GormigrateRollbackLast(rows, migs, out) ==
    IF Len(migs) = 0
    THEN [rows |-> rows, err |-> "no migrations registered", down |-> <<>>]
    ELSE IF out = "query"
    THEN [rows |-> rows, err |-> "rollback failed", down |-> <<>>]
    ELSE LET ran == { i \in DOMAIN migs : GmHas(rows, migs[i].name) }
         IN IF ran = {}
            THEN [rows |-> rows, err |-> "rollback failed", down |-> <<>>]
            ELSE LET m == migs[CHOOSE i \in ran : \A j \in ran : j <= i]
                 IN IF out \in {"down", "write"}
                    THEN [rows |-> rows, err |-> "rollback failed", down |-> <<m>>]
                    ELSE [rows |-> SelectSeq(rows, LAMBDA r : r.name # m.name),
                          err |-> "", down |-> <<m>>]

\* core.RollbackLastMigration: InitMigrations, then App.RollbackLast
RollbackLastMigration(rows, migs, out) == GormigrateRollbackLast(rows, migs, out)

\* handleMigrateRollback: NewApplication, ConnectDB, core.RollbackLastMigration; args
\* is not read
handleMigrateRollback(args, rows, migs, connectOk, out) ==
    IF ~connectOk
    THEN [rows |-> rows, err |-> "failed to connect to database", down |-> <<>>]
    ELSE RollbackLastMigration(rows, migs, out)

\* --to=<id>
To(id) == <<[app |-> "", name |-> id]>>

\* Run with os.Args = [main, "migrate:rollback"] or [main, "migrate:rollback", "--to=<id>"]
CmdMigrateRollback ==
    /\ \E args \in {<<>>} \cup { To(id) : id \in GmIds } :
       \E connectOk \in BOOLEAN :
       \E out \in (IF connectOk THEN RollbackOutcomes ELSE {"ok"}) :
          LET r == handleMigrateRollback(args, gmLedger, gmRegistry, connectOk, out)
          IN /\ gmLedger' = r.rows
             /\ last' = Call("migrate:rollback", args, IF r.err = "" THEN "ok" ELSE "stopped",
                             r.err, <<>>, r.down, 0)
    /\ UNCHANGED <<schema, registry, ledger, gmRegistry>>
    /\ UNCHANGED genVars
    /\ UNCHANGED sideVars

CliNext ==
    \/ CmdMigrate
    \/ CmdMigrateRollback
    \/ StartServer
    \/ StopServer

SpecCli == CliInit /\ [][CliNext]_vars

\* every registered migration is in bourbon_migrations
NothingPending == \A i \in DOMAIN gmRegistry : GmHas(gmLedger, gmRegistry[i].name)

\* C19: when the process started without a command begins to serve, every registered
\* migration has been applied
C19_MigratedBeforeServing ==
    [][ (server.pc # "serving" /\ server'.pc = "serving") => NothingPending' ]_vars

\* the rows up to and including the row of id
UpTo(rows, id) ==
    SubSeq(rows, 1, CHOOSE i \in DOMAIN rows : rows[i].name = id)

\* a migrate:rollback command that returned without error
RolledBack == last'.op = "migrate:rollback" /\ last'.err = ""

\* C20: migrate:rollback without --to removes the last applied migration only; with
\* --to=<id> of an applied migration it removes the migrations applied after <id> and
\* keeps <id> and the earlier ones
C20_RollbackLastOrTo ==
    [][ RolledBack =>
          IF last'.target = <<>>
          THEN gmLedger # <<>> /\ gmLedger' = SubSeq(gmLedger, 1, Len(gmLedger) - 1)
          ELSE GmHas(gmLedger, last'.target[1].name) =>
                  gmLedger' = UpTo(gmLedger, last'.target[1].name) ]_vars

\* the part of C20 without --to
C20_RollbackLastOnly ==
    [][ (RolledBack /\ last'.target = <<>>) =>
          gmLedger # <<>> /\ gmLedger' = SubSeq(gmLedger, 1, Len(gmLedger) - 1) ]_vars

----------------------------------------------------------------------------
(* Error storage: NewApplication, ConnectDB, the default middlewares, requests *)

\* logging.NewErrorStore(db, enabled)
NewErrorStore(db, enabled) == [present |-> TRUE, enabled |-> enabled, db |-> db]

\* ErrorStore.Store: nothing is done without a db handle; the row is created unless
\* the database fails
ErrorStoreStore(es, logs, log, createOk) ==
    IF ~es.enabled \/ es.db = "nil" THEN logs
    ELSE IF createOk THEN Append(logs, log)
    ELSE logs

\* what a route handler does with a request: it panics, or it responds with a status
Handlers ==
    { [panic |-> FALSE, status |-> st] : st \in {200, 404, 500, 503} }
    \cup { [panic |-> TRUE, status |-> 200] }

\* middleware.Logger around the handler: after the handler returns, the line is
\* printed and a 5xx status is stored; a panic passes through before that
Logger(es, logs, h, createOk) ==
    IF h.panic THEN [panic |-> TRUE, status |-> h.status, printed |-> FALSE, logs |-> logs]
    ELSE [panic |-> FALSE, status |-> h.status, printed |-> TRUE,
          logs |-> IF h.status >= 500 /\ es.present
                   THEN ErrorStoreStore(es, logs, [Level |-> "error", Status |-> h.status], createOk)
                   ELSE logs]

\* middleware.Recovery around the rest: a panic is recovered, stored and answered
\* with 500
Recovery(es, logs, h, createOk) ==
    LET inner == Logger(es, logs, h, createOk)
    IN IF inner.panic
       THEN [status |-> 500, printed |-> inner.printed,
             logs |-> IF es.present
                      THEN ErrorStoreStore(es, inner.logs, [Level |-> "panic", Status |-> 500],
                                           createOk)
                      ELSE inner.logs]
       ELSE [status |-> inner.status, printed |-> inner.printed, logs |-> inner.logs]

\* core.NewApplication: app.DB is not set yet when the ErrorStore is made from it
NewApplication ==
    /\ web.pc = "none"
    /\ \E storeErrors \in BOOLEAN :
          web' = [NoWeb EXCEPT !.pc = "created", !.storeErrors = storeErrors,
                     !.ErrorStore = IF storeErrors THEN NewErrorStore(NoWeb.DB, TRUE)
                                    ELSE NoErrorStore]
    /\ UNCHANGED <<ledgerVars, genVars, hashed, coded, updated, server, racers, status, chain, watcher>>

\* App.ConnectDB: a.DB = db; a failure ends the process
ConnectDB ==
    /\ web.pc = "created"
    /\ \E ok \in BOOLEAN :
          web' = IF ok THEN [web EXCEPT !.pc = "connected", !.DB = "open"] ELSE NoWeb
    /\ UNCHANGED <<ledgerVars, genVars, hashed, coded, updated, server, racers, status, chain, watcher>>

\* SetupDefaultMiddlewares: recovery, then logger, both given app.ErrorStore
SetupDefaultMiddlewares ==
    /\ web.pc = "connected"
    /\ web' = [web EXCEPT !.pc = "ready"]
    /\ UNCHANGED <<ledgerVars, genVars, hashed, coded, updated, server, racers, status, chain, watcher>>

\* one request through recovery, logger and the route handler
ServeRequest ==
    /\ web.pc = "ready"
    /\ Len(web.served) < MaxRequests
    /\ \E h \in Handlers, createOk \in BOOLEAN :
          LET r == Recovery(web.ErrorStore, web.logs, h, createOk)
          IN web' = [web EXCEPT !.logs = r.logs,
                        !.served = Append(@, [handler |-> h, status |-> r.status,
                                              printed |-> r.printed, createOk |-> createOk])]
    /\ UNCHANGED <<ledgerVars, genVars, hashed, coded, updated, server, racers, status, chain, watcher>>

WebInit ==
    /\ schema = "DjangoMigration"
    /\ registry = [a \in Apps |-> <<>>]
    /\ ledger = <<>>
    /\ gmRegistry = <<>>
    /\ gmLedger = <<>>
    /\ last = NoCall
    /\ GenIdle
    /\ SideIdle

WebNext ==
    \/ NewApplication
    \/ ConnectDB
    \/ SetupDefaultMiddlewares
    \/ ServeRequest

SpecWeb == WebInit /\ [][WebNext]_vars

\* a request was served whose handler panicked or answered 5xx
ServedError ==
    /\ Len(web'.served) = Len(web.served) + 1
    /\ LET req == web'.served[Len(web'.served)]
       IN req.handler.panic \/ req.handler.status >= 500

\* C21: with store_errors_db enabled, a request whose handler panics or answers 5xx
\* adds an ErrorLog row
C21_ErrorsAreStored ==
    [][ (web.storeErrors /\ ServedError) => Len(web'.logs) = Len(web.logs) + 1 ]_vars

----------------------------------------------------------------------------
(* Convergence of generation *)

\* what a GenerateMigrationForApp for the app of the last call would do now, with the
\* state file readable, whatever is typed
NextGenerations ==
    { GenerateMigrationForApp(source[gen.app], stateFile, migFiles, clock, gen.app, <<>>,
                              TRUE, stdin, "ok") : stdin \in Stdins }

\* C22: once a migration was written and recorded, a following GenerateMigrationForApp
\* for the same app with models.go unchanged detects no changes and writes no file
C22_GenerationConverges ==
    gen.outcome = "created" =>
        \A r \in NextGenerations : r.gen.outcome = "no changes" /\ r.files = migFiles

\* the same, for migrations that delete no model
C22_ConvergesWithoutDeletedModels ==
    (gen.outcome = "created" /\ gen.changes.DeletedModels = {}) =>
        \A r \in NextGenerations : r.gen.outcome = "no changes" /\ r.files = migFiles

----------------------------------------------------------------------------
(* Coverage of the change set by the generated code *)

\* the fields of a map of a change set, each with its model
FieldPairs(map) ==
    UNION { { <<n, map[n][i]>> : i \in DOMAIN map[n] } : n \in DOMAIN map }

\* the code has a statement of one of the operations on the model's column
HasColumnOp(code, ops, pair) ==
    \E k \in DOMAIN code :
        /\ code[k].op \in ops
        /\ code[k].type = FieldToSnakeCase(pair[1])
        /\ code[k].arg = pair[2].Name

\* the Migrate code has an operation for every new model, new field, deleted field
\* and deleted model of the change set
CoversAllButModified(code, c) ==
    /\ \A i \in DOMAIN c.NewModels :
          \E k \in DOMAIN code :
              code[k].op = "CreateTable" /\ code[k].type = FieldToSnakeCase(c.NewModels[i].Name)
    /\ \A p \in FieldPairs(c.NewFields) : HasColumnOp(code, {"AddColumn"}, p)
    /\ \A p \in FieldPairs(c.DeletedFields) : HasColumnOp(code, {"DropColumn"}, p)
    /\ \A n \in c.DeletedModels :
          \E k \in DOMAIN code : code[k].op = "DropTable" /\ code[k].arg = ToSnakeCase(n)

\* the operations of the Migrator that change a table
SchemaOps == {"CreateTable", "DropTable", "AddColumn", "DropColumn", "AlterColumn"}

\* C23: the Migrate code generated for a change set with changes has a schema
\* operation for every reported change, modified fields included, and is not empty
C23_EveryChangeIsMigrated ==
    (coded.done /\ HasChanges(coded.changes)) =>
        /\ CoversAllButModified(coded.migrate, coded.changes)
        /\ \A p \in FieldPairs(coded.changes.ModifiedFields) :
              HasColumnOp(coded.migrate, SchemaOps, p)
        /\ coded.migrate # <<>>

\* the part of C23 about the changes other than modified fields
C23_AllButModifiedIsMigrated ==
    coded.done => CoversAllButModified(coded.migrate, coded.changes)

----------------------------------------------------------------------------
(* Two concurrent MigrationRunner.RunMigration calls for the same migration *)

\* RunMigration, first step: IsApplied
RaceIsApplied(p) ==
    /\ racers.pc[p] = "start"
    /\ \E ok \in BOOLEAN :
          racers' = [racers EXCEPT !.pc[p] =
                        IF ~ok THEN "query error"
                        ELSE IF IsApplied(ledger, racers.m.app, racers.m.name) THEN "skipped"
                        ELSE "checked"]
    /\ UNCHANGED ledger

\* RunMigration, second step: migration.Up(mr.db)
RaceUp(p) ==
    /\ racers.pc[p] = "checked"
    /\ \E ok \in BOOLEAN :
          racers' = [racers EXCEPT !.pc[p] = IF ok THEN "ran" ELSE "up error",
                                   !.up = Append(@, p)]
    /\ UNCHANGED ledger

\* RunMigration, third step: RecordMigration
RaceRecordMigration(p) ==
    /\ racers.pc[p] = "ran"
    /\ \E ok \in BOOLEAN :
          IF ok
          THEN /\ ledger' = RecordMigration(ledger, racers.m.app, racers.m.name)
               /\ racers' = [racers EXCEPT !.pc[p] = "recorded"]
          ELSE /\ racers' = [racers EXCEPT !.pc[p] = "record error"]
               /\ UNCHANGED ledger

\* what a step of a RunMigration call leaves alone
RaceFrame ==
    /\ UNCHANGED <<schema, registry, gmRegistry, gmLedger, last>>
    /\ UNCHANGED <<genVars, hashed, coded, updated, server, web, status, chain, watcher>>

\* one of the calls takes its first, second or third step
StepIsApplied == (\E p \in Procs : RaceIsApplied(p)) /\ RaceFrame

StepUp == (\E p \in Procs : RaceUp(p)) /\ RaceFrame

StepRecordMigration == (\E p \in Procs : RaceRecordMigration(p)) /\ RaceFrame

\* two callers are about to run the same migration on one database, which has no
\* record or one record of some migration
RaceInit ==
    /\ schema = "DjangoMigration"
    /\ registry = [a \in Apps |-> <<>>]
    /\ ledger \in { <<>> } \cup { <<k>> : k \in DjKeys }
    /\ gmRegistry = <<>>
    /\ gmLedger = <<>>
    /\ last = NoCall
    /\ GenIdle
    /\ hashed = NoHash /\ coded = NoCode /\ updated = NoUpdate /\ server = NoServer
    /\ web = NoWeb
    /\ status = NoStatus
    /\ chain = NoChain
    /\ watcher = NoWatcher
    /\ racers \in { [NoRace EXCEPT !.m = m, !.pc = [p \in Procs |-> "start"]] : m \in DjMigs }

RaceNext == StepIsApplied \/ StepUp \/ StepRecordMigration

SpecRace == RaceInit /\ [][RaceNext]_vars

\* C24: whatever the interleaving of the two calls, Up runs at most once and the
\* ledger has at most one record of the migration
C24_UpOnceRecordOnce ==
    /\ Len(racers.up) <= 1
    /\ Cardinality({ i \in DOMAIN ledger :
                       ledger[i].app = racers.m.app /\ ledger[i].name = racers.m.name }) <= 1

----------------------------------------------------------------------------
(* RunRegisteredMigrations: its count and its order *)

\* C25: the count a RunRegisteredMigrations call returns without error is the number
\* of Up callbacks it executed; migrations skipped as already applied are not counted
C25_CountIsUpsExecuted ==
    (last.op = "RunRegisteredMigrations" /\ last.err = "") => last.count = Len(last.up)

\* the Version of the registered migration with that key
VersionOf(k) == (CHOOSE m \in DjMigs : Key(m) = k).version

\* C26: RunRegisteredMigrations invokes the Up callbacks in non-decreasing Version
\* order whatever the registration order, leaving out no pending migration of a lower
\* version; every migration run before a failure keeps its record, the failing one
\* gets none, and nothing is invoked or recorded after it
C26_VersionOrderStopAtFailure ==
    [][ last'.op = "RunRegisteredMigrations" =>
          LET up == last'.up
          IN /\ \A i, j \in DOMAIN up : i < j => VersionOf(up[i]) <= VersionOf(up[j])
             /\ \A j \in DOMAIN up : \A m \in Range(registry[up[j].app]) :
                   (m.version < VersionOf(up[j]) /\ ~IsApplied(ledger, m.app, m.name)) =>
                       \E i \in 1..(j - 1) : up[i] = Key(m)
             /\ IF last'.err = ""
                THEN ledger' = ledger \o up
                ELSE \/ ledger' = ledger \o up
                     \/ up # <<>> /\ ledger' = ledger \o SubSeq(up, 1, Len(up) - 1) ]_vars

\* migrations registered in descending Version order were run in ascending order,
\* and the second one failed after the first was recorded
C26_Witness ==
    /\ last.op = "RunRegisteredMigrations" /\ last.err # ""
    /\ Len(registry["blog"]) = 2 /\ registry["blog"][1].version = 2
    /\ Len(last.up) = 2 /\ VersionOf(last.up[1]) = 1 /\ VersionOf(last.up[2]) = 2
    /\ IsApplied(ledger, "blog", "0001_initial")
    /\ ~IsApplied(ledger, "blog", "0002_add_age")

----------------------------------------------------------------------------
(* The totals of ShowMigrationStatus *)

RECURSIVE SumOver(_, _)
SumOver(f, S) ==
    IF S = {} THEN 0
    ELSE LET a == CHOOSE x \in S : TRUE IN f[a] + SumOver(f, S \ {a})

\* the registered migrations whose id is not in the ledger
Unapplied == { i \in DOMAIN gmRegistry : ~GmHas(gmLedger, gmRegistry[i].name) }

\* C27: the Pending total printed is the number of registered migrations absent from
\* the ledger, so it is not negative, Applied + Pending = Total, and the totals are
\* the sums of the counts printed per app
C27_PendingTotalIsRight ==
    [][ (last'.op = "ShowMigrationStatus" /\ status'.shown) =>
          /\ status'.pending = Cardinality(Unapplied)
          /\ status'.pending >= 0
          /\ status'.applied + status'.pending = status'.total
          /\ status'.applied =
                SumOver([a \in DOMAIN status'.apps |-> status'.apps[a].applied], DOMAIN status'.apps)
          /\ status'.pending =
                SumOver([a \in DOMAIN status'.apps |-> status'.apps[a].pending], DOMAIN status'.apps)
    ]_vars

----------------------------------------------------------------------------
(* Middleware chains: App.buildHandler, Router.wrapHandler, Group.Get *)

\* the middlewares a program adds with App.Use, with Router.Use and gives to Router.Group
GlobalMiddlewares == {"recovery", "logger"}
RouterMiddlewares == {"session", "csrf"}
GroupMiddlewares == {"auth", "admin"}
AllMiddlewares == GlobalMiddlewares \cup RouterMiddlewares \cup GroupMiddlewares

MiddlewareLists(pool) == UNION { [1..n -> pool] : n \in 0..MaxMiddlewares }

\* a handler is the sequence of what a request enters, outermost first; wrapping a
\* handler in a middleware puts the middleware in front of it
Wrap(m, h) == <<m>> \o h

\* the loop `for i := 0; i < len(mws); i++ { h = mws[i](h) }`
RECURSIVE WrapForward(_, _, _)
WrapForward(mws, i, h) ==
    IF i > Len(mws) THEN h ELSE WrapForward(mws, i + 1, Wrap(mws[i], h))

\* the loop `for i := len(mws) - 1; i >= 0; i-- { h = mws[i](h) }`
RECURSIVE WrapLoop(_, _, _)
WrapLoop(mws, i, h) ==
    IF i < 1 THEN h ELSE WrapLoop(mws, i - 1, Wrap(mws[i], h))

WrapAllForward(mws, h) == WrapForward(mws, 1, h)

WrapAll(mws, h) == WrapLoop(mws, Len(mws), h)

\* App.buildHandler: the stack around the Router
buildHandler(stack) == WrapAll(stack, <<"Router">>)

\* Group.Get: the group's middlewares around the route handler, at registration
GroupGetHandler(mws) == WrapAll(mws, <<"handler">>)

\* Router.wrapHandler: the Router.Use middlewares around the registered handler, at
\* the request
wrapHandler(mws, registered) == WrapAll(mws, registered)

\* a request runs through a handler: what it enters, up to the first middleware that
\* does not call next
RECURSIVE Enter(_, _)
Enter(h, rejects) ==
    IF h = <<>> THEN <<>>
    ELSE IF Head(h) \in rejects THEN <<Head(h)>>
    ELSE <<Head(h)>> \o Enter(Tail(h), rejects)

\* Server.Handler.ServeHTTP for a request that matches the route: the global layers,
\* then the Router dispatches to the wrapped route
ServeHTTP(c, rejects) ==
    LET globals == SubSeq(c.handler, 1, Len(c.handler) - 1)
    IN Enter(globals \o wrapHandler(c.middlewares, c.route.Handler), rejects)

\* Run has not been called: the program is still being set up
Configuring == chain.handler = <<>>

\* App.Use / App.UseMiddlewareFunc / App.UseMiddleware, before Run
AppUse ==
    /\ Configuring
    /\ Len(chain.stack) < MaxMiddlewares
    /\ \E m \in GlobalMiddlewares :
          chain' = [chain EXCEPT !.stack = Append(@, m)]
    /\ UNCHANGED <<ledgerVars, genVars, hashed, coded, updated, server, web, racers, status, watcher>>

\* Router.Use, before or after the route is registered
RouterUse ==
    /\ Configuring
    /\ Len(chain.middlewares) < MaxMiddlewares
    /\ \E m \in RouterMiddlewares :
          chain' = [chain EXCEPT !.middlewares = Append(@, m)]
    /\ UNCHANGED <<ledgerVars, genVars, hashed, coded, updated, server, web, racers, status, watcher>>

\* Router.Group(prefix, middleware...)
RouterGroup ==
    /\ Configuring
    /\ ~chain.group.made
    /\ \E mws \in MiddlewareLists(GroupMiddlewares) :
          chain' = [chain EXCEPT !.group = [made |-> TRUE, middlewares |-> mws]]
    /\ UNCHANGED <<ledgerVars, genVars, hashed, coded, updated, server, web, racers, status, watcher>>

\* Group.Get(pattern, handler)
GroupGet ==
    /\ Configuring
    /\ chain.group.made
    /\ ~chain.route.registered
    /\ chain' = [chain EXCEPT !.route =
                    [registered |-> TRUE, Handler |-> GroupGetHandler(chain.group.middlewares)]]
    /\ UNCHANGED <<ledgerVars, genVars, hashed, coded, updated, server, web, racers, status, watcher>>

\* Application.Run builds the handler once and serves until shutdown
Run ==
    /\ Configuring
    /\ chain' = [chain EXCEPT !.handler = buildHandler(chain.stack)]
    /\ UNCHANGED <<ledgerVars, genVars, hashed, coded, updated, server, web, racers, status, watcher>>

\* the middlewares that answer a request themselves instead of calling next: none, or
\* one of them (of several only the outermost would be entered)
Rejecting == { {} } \cup { {m} : m \in AllMiddlewares }

\* one request for the group's route
Request ==
    /\ chain.handler # <<>>
    /\ chain.route.registered
    /\ \E rejects \in Rejecting :
          chain' = [chain EXCEPT !.served = TRUE, !.rejects = rejects,
                                 !.entered = ServeHTTP(chain, rejects)]
    /\ UNCHANGED <<ledgerVars, genVars, hashed, coded, updated, server, web, racers, status, watcher>>

ChainInit ==
    /\ schema = "MigrationRecord"
    /\ registry = [a \in Apps |-> <<>>]
    /\ ledger = <<>>
    /\ gmRegistry = <<>>
    /\ gmLedger = <<>>
    /\ last = NoCall
    /\ GenIdle
    /\ hashed = NoHash /\ coded = NoCode /\ updated = NoUpdate /\ server = NoServer
    /\ web = NoWeb /\ racers = NoRace /\ status = NoStatus /\ watcher = NoWatcher
    /\ chain = NoChain

ChainNext ==
    \/ AppUse
    \/ RouterUse
    \/ RouterGroup
    \/ GroupGet
    \/ Run
    \/ Request

SpecChain == ChainInit /\ [][ChainNext]_vars

\* what the request should enter when every middleware calls next
ExpectedOrder ==
    chain.stack \o chain.middlewares \o chain.group.middlewares \o <<"handler">>

\* C28: a request for a group route enters the global middlewares in the order added,
\* then the Router.Use middlewares in the order added, then the group's middlewares in
\* the order given, then the handler, and nothing after the first middleware that
\* does not call next
C28_MiddlewareOrder ==
    chain.served =>
        /\ Len(chain.entered) <= Len(ExpectedOrder)
        /\ chain.entered = SubSeq(ExpectedOrder, 1, Len(chain.entered))
        /\ \A i \in 1..(Len(chain.entered) - 1) : chain.entered[i] \notin chain.rejects
        /\ Len(chain.entered) < Len(ExpectedOrder) =>
              chain.entered[Len(chain.entered)] \in chain.rejects
        /\ (chain.rejects \cap Range(ExpectedOrder) = {}) => chain.entered = ExpectedOrder

\* a request went through two different middlewares of each kind and reached the
\* handler
C28_Witness ==
    /\ chain.served
    /\ chain.stack = <<"recovery", "logger">>
    /\ chain.middlewares = <<"session", "csrf">>
    /\ chain.group.middlewares = <<"auth", "admin">>
    /\ chain.entered = <<"recovery", "logger", "session", "csrf", "auth", "admin", "handler">>

----------------------------------------------------------------------------
(* The hash as a detector of drift *)

\* a model named after both: "PostUser"
NPostUser == NPost \o NUser

\* the models a state was recorded from: at most two models, each with BaseModel alone
\* or with one field more
RecordedModels ==
    ListsOf({ [Name |-> n, Fields |-> fs] :
                n \in {NUser, NPost, NPostUser}, fs \in ListsOf(HashFields, 1) }, 2)

\* the names of the models, and under each name the set of its fields
Structure(models) ==
    { <<models[i].Name, Range(models[i].Fields)>> : i \in DOMAIN models }

\* C29: DetectModelChanges returns false only when the current models have the model
\* names and, per model, the set of (field name, type, tag) triples of the models the
\* hash was recorded from
C29_HashDetectsEveryDrift ==
    hashed.done =>
        \A R \in RecordedModels :
            LET apps == UpdateMigrationState(<<>>, "blog", R, <<>>)
            IN (~DetectModelChanges(apps, "blog", hashed.models) /\ apps["blog"].LastHash = hashed.sum)
                  => Structure(hashed.models) = Structure(R)

----------------------------------------------------------------------------
(* dev.Watcher *)

\* the files of the project directory: two Go sources, a Go file under tmp/, and a
\* file that is not Go
Paths ==
    { [dir |-> ".", name |-> "main", ext |-> ".go"],
      [dir |-> "apps/blog", name |-> "models", ext |-> ".go"],
      [dir |-> "tmp", name |-> "main", ext |-> ".go"],
      [dir |-> ".", name |-> "README", ext |-> ".md"] }

ModTimes == 0..MaxModTime

\* filepath.Ext(path) != ".go" || strings.Contains(path, "tmp/") skips the file
Visited(path) == path.ext = ".go" /\ path.dir # "tmp"

\* modTime.After(prevTime)
After(t, u) == t > u

\* !exists || modTime.After(prevTime)
NewerOrNew(lastMod, path, modTime) ==
    path \notin DOMAIN lastMod \/ After(modTime, lastMod[path])

\* Watcher.CheckChanges over the files on disk: the new lastMod and the result
CheckChanges(disk, lastMod) ==
    LET updated_ == { p \in DOMAIN disk : Visited(p) /\ NewerOrNew(lastMod, p, disk[p]) }
    IN [lastMod |-> [p \in DOMAIN lastMod \cup updated_ |->
                        IF p \in updated_ THEN disk[p] ELSE lastMod[p]],
        changed |-> \E p \in updated_ : p \in DOMAIN lastMod]

\* a file is created or written, or its modification time is set (touch, a restore
\* that keeps the times of the archive)
WriteFile ==
    /\ \E p \in Paths, t \in ModTimes :
          /\ p \in DOMAIN watcher.disk => watcher.disk[p] # t
          /\ watcher' = [watcher EXCEPT
                           !.disk = [q \in DOMAIN watcher.disk \cup {p} |->
                                       IF q = p THEN t ELSE watcher.disk[q]],
                           !.returned = "none"]
    /\ UNCHANGED <<ledgerVars, genVars, hashed, coded, updated, server, web, racers, status, chain>>

RemoveFile ==
    /\ \E p \in DOMAIN watcher.disk :
          watcher' = [watcher EXCEPT
                        !.disk = [q \in DOMAIN watcher.disk \ {p} |-> watcher.disk[q]],
                        !.returned = "none"]
    /\ UNCHANGED <<ledgerVars, genVars, hashed, coded, updated, server, web, racers, status, chain>>

DoCheckChanges ==
    /\ LET r == CheckChanges(watcher.disk, watcher.lastMod)
       IN watcher' = [watcher EXCEPT
                        !.lastMod = r.lastMod,
                        !.returned = IF r.changed THEN "true" ELSE "false"]
    /\ UNCHANGED <<ledgerVars, genVars, hashed, coded, updated, server, web, racers, status, chain>>

\* NewWatcher in an empty directory
WatchInit ==
    /\ schema = "MigrationRecord"
    /\ registry = [a \in Apps |-> <<>>]
    /\ ledger = <<>>
    /\ gmRegistry = <<>>
    /\ gmLedger = <<>>
    /\ last = NoCall
    /\ GenIdle
    /\ hashed = NoHash /\ coded = NoCode /\ updated = NoUpdate /\ server = NoServer
    /\ web = NoWeb /\ racers = NoRace /\ status = NoStatus /\ chain = NoChain
    /\ watcher = NoWatcher

WatchNext ==
    \/ WriteFile
    \/ RemoveFile
    \/ DoCheckChanges

SpecWatch == WatchInit /\ [][WatchNext]_vars

\* a step that is a call of CheckChanges
CheckStep == watcher'.returned # "none" /\ watcher'.disk = watcher.disk

\* a recorded file has a modification time later than the recorded one
SomeRecordedIsNewer ==
    \E p \in DOMAIN watcher.lastMod \cap DOMAIN watcher.disk :
        Visited(p) /\ watcher.disk[p] > watcher.lastMod[p]

\* true exactly for a recorded file that is newer; false on the first call; false
\* directly after a call
ReturnsTrueForNewerOnly ==
    /\ watcher'.returned = "true" <=> SomeRecordedIsNewer
    /\ watcher.lastMod = <<>> => watcher'.returned = "false"
    /\ watcher.returned # "none" => watcher'.returned = "false"

\* after the call the recorded time of every visited file is its modification time
RecordsCurrentTimes ==
    \A p \in DOMAIN watcher.disk :
        Visited(p) => p \in DOMAIN watcher'.lastMod /\ watcher'.lastMod[p] = watcher.disk[p]

\* C30: CheckChanges returns true exactly when a .go file recorded by an earlier call
\* has a modification time later than the recorded one; the first call returns false,
\* new files never cause true, the recorded time of every visited file is its
\* current modification time after the call, and a call directly after a call
\* returns false
C30_CheckChanges ==
    [][ CheckStep => (ReturnsTrueForNewerOnly /\ RecordsCurrentTimes) ]_vars

\* C30, the part about the result alone
C30_ResultOnly ==
    [][ CheckStep => ReturnsTrueForNewerOnly ]_vars

====
